---------------------------- MODULE Spec2Model ----------------------------
(***************************************************************************)
(* A model of the text-analysis engine of EMOTION-INSIGHT                  *)
(* (src/sentiment_analyzer.py).                                            *)
(*                                                                         *)
(* Numbers.  The engine computes with Python floats.  The model uses       *)
(* fixed-point integers: the integer n stands for the real n / One, so     *)
(* One is 1.0, One \div 2 is 0.5, One \div 5 is 0.2 and One \div 20 is     *)
(* 0.05.  The scorer outputs are drawn from Levels, all even, so that the  *)
(* mean of two of them is again an integer and no rounding takes place.    *)
(*                                                                         *)
(* Text.  A text is a sequence of one-character strings.                   *)
(***************************************************************************)
EXTENDS Integers, Sequences, FiniteSets, TLC

VARIABLES
    pc,                 \* "ready": the call has its input; "returned": it has returned
    text,               \* the text the current call is given
    vader_scores,       \* what sia.polarity_scores(text) answers for this text
    blob_sentiment,     \* what TextBlob(text).sentiment answers for this text
    sentiments,         \* the results perform_basic_sentiment_analysis has returned, in call order
    emotion_classifier, \* the module-level classifier handle (line 20): "None" or a model
    classifier_answer,  \* what emotion_classifier(text) does for this text, were it called
    emotion_results,    \* the dictionaries perform_emotion_analysis has returned, in call order
    classifiers_run,    \* which classifiers the current call ran, in order
    raised,             \* whether the current call ended by raising to its caller
    noun_phrases,       \* what TextBlob(text).noun_phrases answers for this text
    sentences,          \* what nltk.sent_tokenize(text) answers for this text
    pos_tags,           \* what nltk.pos_tag(nltk.word_tokenize(s)) answers, by sentence
    aspects_returned,   \* the lists extract_aspects has returned, in call order
    tagger_used,        \* whether the current call took the tagged-noun branch (lines 153-167)
    sentence_scores,    \* what the two scorers answer for each sentence of the text
    aspect_results,     \* the lists perform_aspect_based_analysis has returned, in call order
    resources,          \* the NLTK resources installed on the machine
    sia,                \* the module-level scorer (line 17): "undefined" or "loaded"
    downloads,          \* the nltk.download requests made so far, and during what
    now,                \* the wall clock, in ticks
    analysis_results,   \* the dictionaries analyze_text has returned, in call order
    db_rows,            \* the rows of the table sentiment_analyses, in insertion order
    history,            \* st.session_state.history
    db_return,          \* what the last database function called on its own returned and printed
    saved_results,      \* the results save_analysis stored, each with the id it was given
    csv_file,           \* the uploaded CSV file as pd.read_csv reads it
    csv_texts,          \* process_csv: the cleaned text column, the rows not yet analysed
    csv_results,        \* process_csv: its list results
    csv_return,         \* process_csv: "running", or what it returned
    threads             \* concurrent calls of extract_aspects: where each is and what it has

vars == << pc, text, vader_scores, blob_sentiment, sentiments,
           emotion_classifier, classifier_answer, emotion_results,
           classifiers_run, raised,
           noun_phrases, sentences, pos_tags, aspects_returned, tagger_used,
           sentence_scores, aspect_results,
           resources, sia, downloads,
           now, analysis_results, db_rows, history, db_return, saved_results,
           csv_file, csv_texts, csv_results, csv_return, threads >>

----------------------------------------------------------------------------
(* Numbers *)

\* 1.0 (the cap of line 48) in fixed-point units.
One == 40

\* 0.5, the offset of the confidence (line 47).
Half == One \div 2

\* 0.05, the classification threshold (lines 39 and 41).
Threshold == One \div 20

Abs(x) == IF x < 0 THEN -x ELSE x

Min(a, b) == IF a <= b THEN a ELSE b

Max(a, b) == IF a >= b THEN a ELSE b

\* How many results one session of calls collects.
MaxCalls == 2

\* How many phrases a text of the emotion classifier is made of, at most.
MaxPhrases == 3

\* How many noun phrases the chunker yields for a text, at most.
MaxNounPhrases == 6

\* How many sentences a text of the aspect extractor has, at most.
MaxSentences == 3

\* How many ticks of the wall clock make a second.
TicksPerSecond == 2

\* The last tick of the wall clock.
MaxClock == 4

\* How many rows an uploaded CSV file has, at most.
MaxRows == 2

\* How many database functions one behaviour calls on their own, at most.
MaxOps == 3

----------------------------------------------------------------------------
(* Text *)

Whitespace == {" ", "\t", "\n"}

\* str.split() of a text with no non-whitespace character yields no token:
\* the scorers then have nothing to score.
IsBlank(t) == \A i \in 1..Len(t) : t[i] \in Whitespace

\* The texts the sentiment aggregator is run on: the empty text, two
\* whitespace-only texts and a text with a word.
SentimentTexts ==
    { <<>>, <<" ">>, <<" ", "\t", "\n">>, <<" ", "o", "k">> }

----------------------------------------------------------------------------
(* The two scorers (external libraries): their possible answers *)

\* Polarity values in [-1, 1]: 0, +/-0.05, +/-0.1, +/-0.5, +/-1.0.
Levels == { -One, -Half, -(2 * Threshold), -Threshold, 0,
            Threshold, 2 * Threshold, Half, One }

\* sia.polarity_scores(text): compound in [-1, 1] and the three proportions;
\* all zero for a text without tokens.
VaderOutputs(t) ==
    IF IsBlank(t)
    THEN { [compound |-> 0, pos |-> 0, neg |-> 0, neu |-> 0] }
    ELSE { [compound |-> c, pos |-> Half, neg |-> 0, neu |-> Half] : c \in Levels }

\* TextBlob(text).sentiment: polarity in [-1, 1] and subjectivity in [0, 1];
\* both zero for a text without assessed words.
BlobOutputs(t) ==
    IF IsBlank(t)
    THEN { [polarity |-> 0, subjectivity |-> 0] }
    ELSE { [polarity |-> p, subjectivity |-> s] : p \in Levels, s \in { 0, One } }

----------------------------------------------------------------------------
(* perform_basic_sentiment_analysis *)

\* A slip: the sum of the two scores, not halved.
compound_score_sum(vader, blob) == vader.compound + blob.polarity

\* Line 36: the average of the two compound scores.
compound_score(vader, blob) == (vader.compound + blob.polarity) \div 2

\* A slip: strict comparisons, so that +/-0.05 itself is Neutral.
classification_strict(compound) ==
    IF compound > Threshold THEN "Positive"
    ELSE IF compound < -Threshold THEN "Negative"
    ELSE "Neutral"

\* Lines 39-44.
classification(compound) ==
    IF compound >= Threshold THEN "Positive"
    ELSE IF compound <= -Threshold THEN "Negative"
    ELSE "Neutral"

\* A slip: line 48 left out, the confidence not capped.
confidence_uncapped(compound) == Abs(compound) + Half

\* A slip: abs() left out of line 47.
confidence_signed(compound) == Min(One, compound + Half)

\* A slip: the offset 0.5 left out of line 47.
confidence_no_offset(compound) == Min(One, Abs(compound))

\* Lines 47-48.
confidence(compound) == Min(One, Abs(compound) + Half)

\* Lines 27-58: the returned dictionary.
perform_basic_sentiment_analysis(vader, blob) ==
    LET c == compound_score(vader, blob)
    IN  [ compound       |-> c,
          positive       |-> vader.pos,
          negative       |-> vader.neg,
          neutral        |-> vader.neu,
          subjectivity   |-> blob.subjectivity,
          classification |-> classification(c),
          confidence     |-> confidence(c) ]

----------------------------------------------------------------------------
(* Text of the emotion classifier *)

UpperCase == << "A", "B", "C", "D", "E", "F", "G", "H", "I", "J", "K", "L", "M", "N", "O", "P", "Q", "R", "S", "T", "U", "V", "W", "X", "Y", "Z" >>

LowerCase == << "a", "b", "c", "d", "e", "f", "g", "h", "i", "j", "k", "l", "m", "n", "o", "p", "q", "r", "s", "t", "u", "v", "w", "x", "y", "z" >>

\* The lower-case letter of every upper-case letter.
ToLower ==
    [c \in { UpperCase[i] : i \in 1..Len(UpperCase) } |->
        LowerCase[CHOOSE i \in 1..Len(UpperCase) : UpperCase[i] = c]]

\* str.lower() on one character (ASCII letters).
LowerChar(c) == IF c \in DOMAIN ToLower THEN ToLower[c] ELSE c

\* Line 101: text.lower().
lower(t) == [i \in 1..Len(t) |-> LowerChar(t[i])]

\* A slip: word has to be a whole word of t, between spaces or the ends.
Contains_whole_word(word, t) ==
    \E i \in 0..(Len(t) - Len(word)) :
        /\ \A k \in 1..Len(word) : t[i + k] = word[k]
        /\ i = 0 \/ t[i] = " "
        /\ i + Len(word) = Len(t) \/ t[i + Len(word) + 1] = " "

\* Python's `word in t` on strings: word occurs in t as a substring.
Contains(word, t) ==
    \E i \in 0..(Len(t) - Len(word)) : \A k \in 1..Len(word) : t[i + k] = word[k]

\* Line 95.
joy_words ==
    << <<"h","a","p","p","y">>,
       <<"j","o","y">>,
       <<"d","e","l","i","g","h","t","e","d">>,
       <<"e","x","c","i","t","e","d">>,
       <<"g","l","a","d">>,
       <<"p","l","e","a","s","e","d">>,
       <<"t","h","r","i","l","l","e","d">> >>

\* Line 96.
sadness_words ==
    << <<"s","a","d">>,
       <<"u","n","h","a","p","p","y">>,
       <<"d","i","s","a","p","p","o","i","n","t","e","d">>,
       <<"d","e","p","r","e","s","s","e","d">>,
       <<"u","p","s","e","t">>,
       <<"m","i","s","e","r","a","b","l","e">> >>

\* Line 97.
anger_words ==
    << <<"a","n","g","r","y">>,
       <<"f","u","r","i","o","u","s">>,
       <<"e","n","r","a","g","e","d">>,
       <<"a","n","n","o","y","e","d">>,
       <<"i","r","r","i","t","a","t","e","d">>,
       <<"f","r","u","s","t","r","a","t","e","d">> >>

\* Line 98.
fear_words ==
    << <<"a","f","r","a","i","d">>,
       <<"s","c","a","r","e","d">>,
       <<"f","r","i","g","h","t","e","n","e","d">>,
       <<"t","e","r","r","i","f","i","e","d">>,
       <<"w","o","r","r","i","e","d">>,
       <<"a","n","x","i","o","u","s">> >>

\* Line 99.
surprise_words ==
    << <<"s","u","r","p","r","i","s","e","d">>,
       <<"a","m","a","z","e","d">>,
       <<"a","s","t","o","n","i","s","h","e","d">>,
       <<"s","h","o","c","k","e","d">>,
       <<"s","t","u","n","n","e","d">> >>

\* The phrases the texts of the emotion classifier are made of.
Phrases ==
    { <<"h","a","p","p","y">>,
      <<"J","o","y"," ","a","n","d"," ","G","L","A","D">>,
      <<"p","l","e","a","s","e","d"," ","e","x","c","i","t","e","d"," ","t","h","r","i","l","l","e","d">>,
      <<"d","e","l","i","g","h","t","e","d">>,
      <<"u","n","h","a","p","p","y">>,
      <<"s","o"," ","s","a","d">>,
      <<"A","N","G","R","Y">>,
      <<"a","f","r","a","i","d">>,
      <<"S","u","r","p","r","i","s","e","d">>,
      <<"f","i","n","e">> }

RECURSIVE JoinPhrases(_)
\* " ".join(ps)
JoinPhrases(ps) ==
    IF Len(ps) = 0 THEN <<>>
    ELSE IF Len(ps) = 1 THEN ps[1]
    ELSE ps[1] \o <<" ">> \o JoinPhrases(Tail(ps))

\* The texts of at most n phrases.
TextsUpTo(n) ==
    UNION { { JoinPhrases(ps) : ps \in [1..k -> Phrases] } : k \in 0..n }

\* The texts the lexicon classifier is run on.
EmotionTexts == TextsUpTo(MaxPhrases)

\* The texts each answer of a model-based classifier is tried on.
ClassifierTexts == TextsUpTo(MaxPhrases - 1)

----------------------------------------------------------------------------
(* The model-based classifier (external, optional) *)

\* The keys of the lexicon profile (lines 85-92).
EmotionNames == { "joy", "sadness", "anger", "fear", "surprise", "neutral" }

\* The handle of line 20.  The repository sets it to None and never
\* assigns it again; "model" stands for a configured classifier.
Classifiers == { "None", "model" }

Label(l, sc) == [label |-> l, score |-> sc]

\* What a call emotion_classifier(text) may do: raise, or return a list
\* whose first element (if any) is a list of {label, score} dictionaries.
ClassifierAnswers ==
    { [kind |-> "raises", value |-> <<>>],
      \* []: emotions[0] raises IndexError
      [kind |-> "returns", value |-> <<>>],
      \* [[]]
      [kind |-> "returns", value |-> << <<>> >>],
      \* the six names of the lexicon profile
      [kind |-> "returns",
       value |-> << << Label("joy", Half), Label("sadness", 0), Label("anger", 0),
                       Label("fear", 0), Label("surprise", Half), Label("neutral", 0) >> >>],
      \* a model with a seventh label
      [kind |-> "returns",
       value |-> << << Label("anger", 0), Label("disgust", One), Label("fear", 0),
                       Label("joy", 0), Label("neutral", 0), Label("sadness", 0),
                       Label("surprise", 0) >> >>],
      \* a model that reports its top label only
      [kind |-> "returns", value |-> << << Label("joy", One) >> >>] }

\* A slip: only the first entry of emotions[0] is converted.
emotion_dict_first_only(labels) ==
    [l \in { labels[i].label : i \in 1..Min(1, Len(labels)) } |-> labels[1].score]

\* Lines 71-75: the list of {label, score} as a dictionary; a later entry
\* with the same label overwrites an earlier one.
emotion_dict(labels) ==
    [l \in { labels[i].label : i \in 1..Len(labels) } |->
        LET last == CHOOSE i \in 1..Len(labels) :
                        /\ labels[i].label = l
                        /\ \A j \in (i + 1)..Len(labels) : labels[j].label # l
        IN  labels[last].score]

----------------------------------------------------------------------------
(* perform_emotion_analysis: the lexicon classifier *)

\* 0.2, the weight of one keyword (lines 106-122).
KeywordWeight == One \div 5

\* Lines 95-99, by emotion.
emotion_words ==
    [ joy |-> joy_words, sadness |-> sadness_words, anger |-> anger_words,
      fear |-> fear_words, surprise |-> surprise_words ]

\* The emotions that have a keyword list.
KeywordEmotions == DOMAIN emotion_words

\* A slip: 0.2 for every occurrence of a word of the list.
keyword_score_occurrences(words, text_lower) ==
    KeywordWeight *
        Cardinality({ p \in (1..Len(words)) \X (0..Len(text_lower)) :
                        /\ p[2] + Len(words[p[1]]) <= Len(text_lower)
                        /\ \A k \in 1..Len(words[p[1]]) :
                              text_lower[p[2] + k] = words[p[1]][k] })

\* One loop of lines 104-122: 0.2 for every word of the list that occurs
\* in text_lower.
keyword_score(words, text_lower) ==
    KeywordWeight * Cardinality({ i \in 1..Len(words) : Contains(words[i], text_lower) })

\* A slip: line 126 left out, the score not capped.
capped_score_uncapped(score) == score

\* Line 126.
capped_score(score) == Min(One, score)

\* A slip: max(0, ...) left out of line 132.
neutral_score_unclamped(total) ==
    IF total = 0 THEN One ELSE One - total

\* A slip: the else branch of lines 131-132 left out, neutral stays 0.0.
neutral_score_no_else(total) ==
    IF total = 0 THEN One ELSE 0

\* Lines 128-132.
neutral_score(total) ==
    IF total = 0 THEN One ELSE Max(0, One - total)

\* Lines 85-134: the lexicon profile of a text.
lexicon_emotions(t) ==
    LET text_lower == lower(t)
        capped == [e \in KeywordEmotions |->
                      capped_score(keyword_score(emotion_words[e], text_lower))]
        \* line 128: the sum of all values, neutral (0.0) among them
        total == capped.joy + capped.sadness + capped.anger + capped.fear
                   + capped.surprise + capped_score(0)
    IN  [e \in EmotionNames |->
            IF e = "neutral" THEN neutral_score(total) ELSE capped[e]]

----------------------------------------------------------------------------
(* perform_emotion_analysis *)

\* Lines 68-77 succeed: the call returns and emotions[0] exists.
ModelSucceeds(answer) == answer.kind = "returns" /\ Len(answer.value) > 0

\* A slip: the except clause of lines 79-82 re-raises.
perform_emotion_analysis_reraise(classifier, answer, t) ==
    IF classifier # "None"
    THEN IF ModelSucceeds(answer)
         THEN [value |-> emotion_dict(answer.value[1]), raised |-> FALSE, ran |-> <<"model">>]
         ELSE [value |-> <<>>, raised |-> TRUE, ran |-> <<"model">>]
    ELSE [value |-> lexicon_emotions(t), raised |-> FALSE, ran |-> <<"lexicon">>]

\* Lines 60-134.  value: the returned dictionary; raised: whether the call
\* raises instead; ran: the classifiers that ran, in order.
perform_emotion_analysis(classifier, answer, t) ==
    IF classifier # "None"
    THEN IF ModelSucceeds(answer)
         THEN [value |-> emotion_dict(answer.value[1]), raised |-> FALSE, ran |-> <<"model">>]
         ELSE [value |-> lexicon_emotions(t), raised |-> FALSE, ran |-> <<"model", "lexicon">>]
    ELSE [value |-> lexicon_emotions(t), raised |-> FALSE, ran |-> <<"lexicon">>]

----------------------------------------------------------------------------
(* extract_aspects: the chunker, the sentence splitter and the tagger *)
(* (external libraries) and their possible answers                    *)

\* The noun phrases the chunker yields are made of these; TextBlob gives
\* them in lower case.  One of them has two characters.
NounPhraseTerms ==
    { <<"f","o","o","d">>,
      <<"s","e","r","v","i","c","e">>,
      <<"p","r","i","c","e">>,
      <<"s","t","a","f","f">>,
      <<"m","e","n","u">>,
      <<"w","i","n","e">>,
      <<"t","v">> }

\* blob.noun_phrases: a list, possibly empty, possibly with repeats.
NounPhraseLists ==
    UNION { [1..n -> NounPhraseTerms] : n \in 0..MaxNounPhrases }

Tagged(w, p) == [word |-> w, pos |-> p]

\* The sentences the texts of the tagged-noun branch are made of, each with
\* the (word, tag) pairs nltk.pos_tag gives for it.
TaggedSentences ==
    { [ sentence |-> <<"F","o","o","d"," ","w","a","s"," ","g","o","o","d",".">>,
        tags |-> << Tagged(<<"F","o","o","d">>, <<"N","N">>),
                    Tagged(<<"w","a","s">>, <<"V","B","D">>),
                    Tagged(<<"g","o","o","d">>, <<"J","J">>),
                    Tagged(<<".">>, <<".">>) >> ],
      [ sentence |-> <<"T","h","e"," ","f","o","o","d"," ","a","n","d"," ","s","e","r","v","i","c","e"," ","s","h","i","n","e",".">>,
        tags |-> << Tagged(<<"T","h","e">>, <<"D","T">>),
                    Tagged(<<"f","o","o","d">>, <<"N","N">>),
                    Tagged(<<"a","n","d">>, <<"C","C">>),
                    Tagged(<<"s","e","r","v","i","c","e">>, <<"N","N">>),
                    Tagged(<<"s","h","i","n","e">>, <<"V","B","P">>),
                    Tagged(<<".">>, <<".">>) >> ],
      [ sentence |-> <<"T","V"," ","i","s"," ","o","n",".">>,
        tags |-> << Tagged(<<"T","V">>, <<"N","N","P">>),
                    Tagged(<<"i","s">>, <<"V","B","Z">>),
                    Tagged(<<"o","n">>, <<"I","N">>),
                    Tagged(<<".">>, <<".">>) >> ],
      [ sentence |-> <<"P","r","i","c","e","s"," ","s","t","a","f","f"," ","M","e","n","u","!">>,
        tags |-> << Tagged(<<"P","r","i","c","e","s">>, <<"N","N","S">>),
                    Tagged(<<"s","t","a","f","f">>, <<"N","N">>),
                    Tagged(<<"M","e","n","u">>, <<"N","N","P">>),
                    Tagged(<<"!">>, <<".">>) >> ] }

\* The text the chunker finds noun phrases in: the sentence with the words
\* food and service.
ChunkedSentences ==
    << CHOOSE ts \in TaggedSentences :
          \E i \in 1..Len(ts.tags) : ts.tags[i].word = <<"s","e","r","v","i","c","e">> >>

\* The texts of the tagged-noun branch: up to MaxSentences sentences.
SentenceLists ==
    UNION { [1..n -> TaggedSentences] : n \in 0..MaxSentences }

----------------------------------------------------------------------------
(* extract_aspects *)

\* Line 178: the number of aspects kept.
AspectLimit == 5

\* Lines 166 and 174: an aspect has more characters than this.
ShortLength == 2

\* Line 163: pos.startswith('NN').
IsNounTag(pos) == Len(pos) >= 2 /\ pos[1] = "N" /\ pos[2] = "N"

\* Lines 163-167 for one sentence: the nouns longer than 2 characters.
sentence_nouns(tags) ==
    LET nouns == SelectSeq(tags, LAMBDA tk : IsNounTag(tk.pos))
        long  == SelectSeq(nouns, LAMBDA tk : Len(tk.word) > ShortLength)
    IN  [i \in 1..Len(long) |-> long[i].word]

RECURSIVE tagged_nouns(_)
\* Lines 158-167: the nouns of all sentences, in order.
tagged_nouns(tagged) ==
    IF Len(tagged) = 0 THEN <<>>
    ELSE sentence_nouns(Head(tagged)) \o tagged_nouns(Tail(tagged))

\* Line 152: `if not noun_phrases`.
takes_tagger_branch(phrases) == Len(phrases) = 0

\* A slip: the tagged nouns are added to the noun phrases.
candidate_aspects_both(phrases, tagged) == phrases \o tagged_nouns(tagged)

\* Lines 149-169: the candidate aspects.
candidate_aspects(phrases, tagged) ==
    IF takes_tagger_branch(phrases) THEN tagged_nouns(tagged) ELSE phrases

InList(a, list) == \E i \in 1..Len(list) : list[i] = a

RECURSIVE unique_aspects_from(_, _)
\* Lines 172-175: each aspect not yet kept and longer than 2 characters
\* is kept, in order.
unique_aspects_from(rest, kept) ==
    IF Len(rest) = 0 THEN kept
    ELSE LET aspect == Head(rest)
         IN  unique_aspects_from(Tail(rest),
                 IF ~InList(aspect, kept) /\ Len(aspect) > ShortLength
                 THEN Append(kept, aspect) ELSE kept)

unique_aspects(aspects) == unique_aspects_from(aspects, <<>>)

\* A slip: one aspect too many is kept.
first_aspects_six(list) == SubSeq(list, 1, Min(AspectLimit + 1, Len(list)))

\* Line 178: unique_aspects[:5].
first_aspects(list) == SubSeq(list, 1, Min(AspectLimit, Len(list)))

\* A slip: the list is cut to five before the repeats are removed.
extract_aspects_cut_first(phrases, tagged) ==
    unique_aspects(first_aspects(candidate_aspects(phrases, tagged)))

\* Lines 136-178.
extract_aspects(phrases, tagged) ==
    first_aspects(unique_aspects(candidate_aspects(phrases, tagged)))

----------------------------------------------------------------------------
(* The NLTK resources: module initialisation and extract_aspects *)

\* Lines 10, 11 and 154: the resources the module names.
Resources == { "vader_lexicon", "punkt", "averaged_perceptron_tagger" }

\* One nltk.download request.
Download(resource, during) == [resource |-> resource, during |-> during]

\* Lines 9-17: importing the module.  got says, for each resource, whether
\* nltk.download would obtain it; nltk.download reports a failure by its
\* return value, which lines 13-14 ignore.  SentimentIntensityAnalyzer()
\* raises LookupError without the lexicon.
import_module(installed, got) ==
    LET found    == "vader_lexicon" \in installed /\ "punkt" \in installed
        obtained == { r \in { "vader_lexicon", "punkt" } : got[r] }
        after    == IF found THEN installed ELSE installed \cup obtained
    IN  [ resources |-> after,
          downloads |-> IF found THEN <<>>
                        ELSE << Download("vader_lexicon", "import"),
                                Download("punkt", "import") >>,
          raised    |-> "vader_lexicon" \notin after ]

\* Lines 146-160: what a call of extract_aspects does with the resources.
\* nltk.sent_tokenize raises LookupError without punkt, nltk.pos_tag
\* without the tagger; got says whether nltk.download would obtain the
\* tagger.
extract_aspects_resources(phrases, sents, installed, got) ==
    IF "punkt" \notin installed
    THEN [resources |-> installed, downloads |-> <<>>, raised |-> TRUE]
    ELSE IF ~takes_tagger_branch(phrases)
    THEN [resources |-> installed, downloads |-> <<>>, raised |-> FALSE]
    ELSE LET found == "averaged_perceptron_tagger" \in installed
             after == IF ~found /\ got THEN installed \cup { "averaged_perceptron_tagger" }
                      ELSE installed
         IN  [ resources |-> after,
               downloads |-> IF found THEN <<>>
                             ELSE << Download("averaged_perceptron_tagger", "call") >>,
               raised    |-> Len(sents) > 0 /\ "averaged_perceptron_tagger" \notin after ]

----------------------------------------------------------------------------
(* perform_aspect_based_analysis *)

\* What the chunker is taken to yield for the texts the resolver is run on:
\* nothing, phrases that occur in a sentence, a phrase that occurs in none
\* ("wine") and a phrase too short to be kept ("tv").
ResolverNounPhrases ==
    { <<>>,
      << <<"f","o","o","d">> >>,
      << <<"w","i","n","e">> >>,
      << <<"w","i","n","e">>, <<"f","o","o","d">>, <<"w","i","n","e">> >>,
      << <<"t","v">>, <<"s","e","r","v","i","c","e">> >>,
      << <<"s","t","a","f","f">>, <<"w","i","n","e">>, <<"m","e","n","u">> >> }

\* The compounds the scorers are taken to give a sentence or a document
\* handed to the resolver: -0.15, 0 and 0.1.
ResolverLevels == { -(3 * Threshold), 0, 2 * Threshold }

\* The answers of the two scorers for such a text.
ResolverAnswers ==
    { [vader |-> [compound |-> c, pos |-> Half, neg |-> 0, neu |-> Half],
       blob  |-> [polarity |-> c, subjectivity |-> One]] : c \in ResolverLevels }

\* Line 225: the context of an aspect no sentence mentions.
InferredContext ==
    <<"I","n","f","e","r","r","e","d"," ","f","r","o","m"," ",
      "o","v","e","r","a","l","l"," ","t","e","x","t">>

\* Line 196: the sentences that contain the aspect, letter case ignored.
relevant_sentences(aspect, sents) ==
    SelectSeq(sents, LAMBDA st : Contains(lower(aspect), lower(st)))

RECURSIVE sum_compound(_)
\* Line 203: sum(s["compound"] for s in sentiments).
sum_compound(results) ==
    IF Len(results) = 0 THEN 0
    ELSE Head(results).compound + sum_compound(Tail(results))

\* Line 203: the quotient sum / len, kept exact as numerator and denominator.
avg_compound(results) == [num |-> sum_compound(results), den |-> Len(results)]

\* Lines 206-211, on the quotient.
avg_classification(avg) ==
    IF avg.num >= Threshold * avg.den THEN "Positive"
    ELSE IF avg.num <= -Threshold * avg.den THEN "Negative"
    ELSE "Neutral"

\* A slip: the sum of the compounds is not divided by their number.
aspect_record_sum(aspect, sents, score_of, overall) ==
    LET relevant == relevant_sentences(aspect, sents)
    IN  IF Len(relevant) > 0
        THEN LET results == [i \in 1..Len(relevant) |->
                               perform_basic_sentiment_analysis(score_of[relevant[i]].vader,
                                                                score_of[relevant[i]].blob)]
                 avg == [num |-> sum_compound(results), den |-> 1]
             IN  [ aspect    |-> aspect,
                   sentiment |-> avg_classification(avg),
                   score     |-> avg,
                   context   |-> relevant[1] ]
        ELSE LET whole == perform_basic_sentiment_analysis(overall.vader, overall.blob)
             IN  [ aspect    |-> aspect,
                   sentiment |-> whole.classification,
                   score     |-> [num |-> whole.compound, den |-> 1],
                   context   |-> InferredContext ]

\* A slip: an aspect no sentence mentions is reported Neutral with score 0.
aspect_record_neutral_fallback(aspect, sents, score_of, overall) ==
    LET relevant == relevant_sentences(aspect, sents)
    IN  IF Len(relevant) > 0
        THEN LET results == [i \in 1..Len(relevant) |->
                               perform_basic_sentiment_analysis(score_of[relevant[i]].vader,
                                                                score_of[relevant[i]].blob)]
                 avg == avg_compound(results)
             IN  [ aspect    |-> aspect,
                   sentiment |-> avg_classification(avg),
                   score     |-> avg,
                   context   |-> relevant[1] ]
        ELSE [ aspect    |-> aspect,
               sentiment |-> "Neutral",
               score     |-> [num |-> 0, den |-> 1],
               context   |-> InferredContext ]

\* A slip: the sentiment is that of the first relevant sentence, not of
\* the average.
aspect_record_first_sentiment(aspect, sents, score_of, overall) ==
    LET relevant == relevant_sentences(aspect, sents)
    IN  IF Len(relevant) > 0
        THEN LET results == [i \in 1..Len(relevant) |->
                               perform_basic_sentiment_analysis(score_of[relevant[i]].vader,
                                                                score_of[relevant[i]].blob)]
                 avg == avg_compound(results)
             IN  [ aspect    |-> aspect,
                   sentiment |-> results[1].classification,
                   score     |-> avg,
                   context   |-> relevant[1] ]
        ELSE LET whole == perform_basic_sentiment_analysis(overall.vader, overall.blob)
             IN  [ aspect    |-> aspect,
                   sentiment |-> whole.classification,
                   score     |-> [num |-> whole.compound, den |-> 1],
                   context   |-> InferredContext ]

\* Lines 194-227: the record of one aspect.  score_of gives the scorers'
\* answers for each sentence, overall their answers for the whole text.
aspect_record(aspect, sents, score_of, overall) ==
    LET relevant == relevant_sentences(aspect, sents)
    IN  IF Len(relevant) > 0
        THEN LET results == [i \in 1..Len(relevant) |->
                               perform_basic_sentiment_analysis(score_of[relevant[i]].vader,
                                                                score_of[relevant[i]].blob)]
                 avg == avg_compound(results)
             IN  [ aspect    |-> aspect,
                   sentiment |-> avg_classification(avg),
                   score     |-> avg,
                   context   |-> relevant[1] ]
        ELSE LET whole == perform_basic_sentiment_analysis(overall.vader, overall.blob)
             IN  [ aspect    |-> aspect,
                   sentiment |-> whole.classification,
                   score     |-> [num |-> whole.compound, den |-> 1],
                   context   |-> InferredContext ]

\* The aspects some sentence mentions.
mentioned_aspects(aspects, sents) ==
    SelectSeq(aspects, LAMBDA a : Len(relevant_sentences(a, sents)) > 0)

\* A slip: an aspect no sentence mentions gets no record.
perform_aspect_based_analysis_mentioned_only(phrases, tagged, sents, score_of, overall) ==
    LET aspects == mentioned_aspects(extract_aspects(phrases, tagged), sents)
    IN  [i \in 1..Len(aspects) |-> (LET relevant == relevant_sentences(aspects[i], sents)
                                    IN  [ aspect    |-> aspects[i],
                                          sentiment |-> "Neutral",
                                          score     |-> [num |-> 0, den |-> 1],
                                          context   |-> relevant[1] ])]

\* Lines 180-229.
perform_aspect_based_analysis(phrases, tagged, sents, score_of, overall) ==
    LET aspects == extract_aspects(phrases, tagged)
    IN  IF Len(aspects) = 0 THEN <<>>
        ELSE [i \in 1..Len(aspects) |-> aspect_record(aspects[i], sents, score_of, overall)]

----------------------------------------------------------------------------
(* The database (src/database.py) *)

\* strftime("%Y-%m-%d %H:%M:%S") of an instant: its second, the fraction
\* of a second dropped.
strftime(instant) == instant \div TicksPerSecond

\* datetime.strptime(stamp, "%Y-%m-%d %H:%M:%S"): the start of that second.
strptime(stamp) == stamp * TicksPerSecond

\* A timestamp text that is not of the format "%Y-%m-%d %H:%M:%S" is
\* written as a negative number: strptime raises ValueError for it.
strptime_raises(stamp) == stamp < 0

\* json.dumps and json.loads: a value and the text that encodes it.
json_dumps(value) == [json |-> value]

json_loads(encoded) == encoded.json

\* The primary key SQLite gives a new row: one more than the largest.
next_id(rows) ==
    IF Len(rows) = 0 THEN 1
    ELSE 1 + (CHOOSE m \in { rows[i].id : i \in 1..Len(rows) } :
                 \A i \in 1..Len(rows) : rows[i].id <= m)

\* A slip: the confidence is written to the column sentiment_score.
new_analysis_confidence_as_score(analysis_result, rows) ==
    [ id                       |-> next_id(rows),
      timestamp                |-> strptime(analysis_result.timestamp),
      text                     |-> analysis_result.text,
      sentiment_score          |-> analysis_result.sentiment.confidence,
      sentiment_classification |-> analysis_result.sentiment.classification,
      confidence               |-> analysis_result.sentiment.confidence,
      emotions                 |-> json_dumps(analysis_result.emotions),
      aspects                  |-> json_dumps(analysis_result.aspects) ]

\* Lines 57-65 of database.py: the row made of an analysis result.
new_analysis(analysis_result, rows) ==
    [ id                       |-> next_id(rows),
      timestamp                |-> strptime(analysis_result.timestamp),
      text                     |-> analysis_result.text,
      sentiment_score          |-> analysis_result.sentiment.compound,
      sentiment_classification |-> analysis_result.sentiment.classification,
      confidence               |-> analysis_result.sentiment.confidence,
      emotions                 |-> json_dumps(analysis_result.emotions),
      aspects                  |-> json_dumps(analysis_result.aspects) ]

\* Lines 56-74 of database.py: whether save_analysis ends in its except
\* clause, because the result is malformed (line 58 raises) or because the
\* commit does not go through.
save_fails(analysis_result, committed) ==
    strptime_raises(analysis_result.timestamp) \/ ~committed

\* A slip: the except clause does not roll back, and the row added at line
\* 67 is written by the session's next commit.
save_analysis_no_rollback(analysis_result, rows, committed) ==
    IF strptime_raises(analysis_result.timestamp) THEN rows
    ELSE Append(rows, new_analysis(analysis_result, rows))

\* Lines 51-76 of database.py: the table after save_analysis.  committed
\* says whether the commit goes through; if not, lines 71-74 roll back and
\* return None without raising.
save_analysis(analysis_result, rows, committed) ==
    IF save_fails(analysis_result, committed) THEN rows
    ELSE Append(rows, new_analysis(analysis_result, rows))

\* Lines 69 and 74 of database.py: what save_analysis returns (none: the
\* value None) and prints.
save_analysis_return(analysis_result, rows, committed) ==
    IF save_fails(analysis_result, committed)
    THEN [none |-> TRUE, number |-> 0, printed |-> "Error saving to database"]
    ELSE [none |-> FALSE, number |-> next_id(rows), printed |-> ""]

\* Lines 31-41 of database.py.  The two JSON columns of a row that
\* save_analysis wrote are never empty.
to_dict(row) ==
    [ id                       |-> row.id,
      timestamp                |-> strftime(row.timestamp),
      text                     |-> row.text,
      sentiment_score          |-> row.sentiment_score,
      sentiment_classification |-> row.sentiment_classification,
      confidence               |-> row.confidence,
      emotions                 |-> json_loads(row.emotions),
      aspects                  |-> json_loads(row.aspects) ]

\* Line 83 of database.py: the orders ORDER BY timestamp DESC may give the
\* rows in; rows of the same timestamp come in any order.
timestamp_desc(rows) ==
    { order \in [1..Len(rows) -> 1..Len(rows)] :
        /\ \A i, j \in 1..Len(rows) : i # j => order[i] # order[j]
        /\ \A i, j \in 1..Len(rows) :
              i < j => rows[order[i]].timestamp >= rows[order[j]].timestamp }

\* Lines 78-89 of database.py: the lists get_all_analyses may return.
\* queried says whether the query goes through; if not, line 87 returns [].
get_all_analyses(rows, queried) ==
    IF queried
    THEN { [i \in 1..Len(rows) |-> to_dict(rows[order[i]])] : order \in timestamp_desc(rows) }
    ELSE { <<>> }

\* Lines 91-102 of database.py: get_analysis_by_id.  none: the value None.
get_analysis_by_id(analysis_id, rows, queried) ==
    LET found == SelectSeq(rows, LAMBDA row : row.id = analysis_id)
    IN  IF ~queried
        THEN [none |-> TRUE, records |-> <<>>, printed |-> "Error retrieving from database"]
        ELSE IF Len(found) > 0
        THEN [none |-> FALSE, records |-> << to_dict(found[1]) >>, printed |-> ""]
        ELSE [none |-> TRUE, records |-> <<>>, printed |-> ""]

\* A slip: every row with an id up to the given one is deleted.
delete_analysis_up_to(analysis_id, rows, committed) ==
    IF committed /\ \E i \in 1..Len(rows) : rows[i].id = analysis_id
    THEN [ rows    |-> SelectSeq(rows, LAMBDA row : row.id > analysis_id),
           flag    |-> TRUE,
           printed |-> "" ]
    ELSE [ rows    |-> rows,
           flag    |-> FALSE,
           printed |-> IF committed THEN "" ELSE "Error deleting from database" ]

\* Lines 106-122 of database.py: delete_analysis.  committed says whether
\* the query and the commit go through; if not, lines 117-120 roll back
\* and return False.
delete_analysis(analysis_id, rows, committed) ==
    IF committed /\ \E i \in 1..Len(rows) : rows[i].id = analysis_id
    THEN [ rows    |-> SelectSeq(rows, LAMBDA row : row.id # analysis_id),
           flag    |-> TRUE,
           printed |-> "" ]
    ELSE [ rows    |-> rows,
           flag    |-> FALSE,
           printed |-> IF committed THEN "" ELSE "Error deleting from database" ]

\* A slip: the number of rows is counted after they are deleted.
delete_all_analyses_count_after(rows, committed) ==
    IF committed
    THEN [rows |-> <<>>, number |-> 0, printed |-> ""]
    ELSE [rows |-> rows, number |-> 0, printed |-> "Error deleting all analyses"]

\* Lines 166-180 of database.py: delete_all_analyses.  If the count, the
\* delete or the commit does not go through, lines 175-178 roll back and
\* return 0.
delete_all_analyses(rows, committed) ==
    IF committed
    THEN [rows |-> <<>>, number |-> Len(rows), printed |-> ""]
    ELSE [rows |-> rows, number |-> 0, printed |-> "Error deleting all analyses"]

----------------------------------------------------------------------------
(* analyze_text (src/app.py) *)

\* A slip: the time the module was imported is formatted, not the time of
\* the call.
timestamp_of_import(instant) == strftime(0)

\* Line 83 of app.py: datetime.now().strftime("%Y-%m-%d %H:%M:%S").
timestamp_of(instant) == strftime(instant)

\* Lines 83-90 of app.py.
analysis_result(instant, t, sentiment_result, emotion_result, aspect_result) ==
    [ timestamp |-> timestamp_of(instant),
      text      |-> t,
      sentiment |-> sentiment_result,
      emotions  |-> emotion_result,
      aspects   |-> aspect_result ]

----------------------------------------------------------------------------
(* process_csv (src/app.py) *)

\* A cell of the text column as pd.read_csv gives it: a string, or NaN for
\* an empty field.
MissingCell == [present |-> FALSE, value |-> <<>>]

Cell(value) == [present |-> TRUE, value |-> value]

\* str(float('nan')).
NanText == <<"n","a","n">>

\* The sentence splitter's and the tagger's answer for the text "nan".
NanSentence == [sentence |-> NanText, tags |-> << Tagged(NanText, <<"N","N">>) >>]

\* The cells of the files: an empty field, a field of blanks, a sentence
\* with blanks around it and a sentence.
CsvCells ==
    { MissingCell,
      Cell(<<" "," ">>),
      Cell(<<" ","T","V"," ","i","s"," ","o","n","."," ">>),
      Cell(<<"F","o","o","d"," ","w","a","s"," ","g","o","o","d",".">>) }

\* The uploaded files: one without a column named text, and those with
\* one.
CsvFiles ==
    { [has_text |-> FALSE, cells |-> <<>>] }
      \cup { [has_text |-> TRUE, cells |-> cells] :
                cells \in UNION { [1..n -> CsvCells] : n \in 0..MaxRows } }

\* Line 120 of app.py: astype(str) of a cell; NaN becomes "nan".
astype_str(cell) == IF cell.present THEN cell.value ELSE NanText

RECURSIVE lstrip(_)
lstrip(t) ==
    IF Len(t) > 0 /\ Head(t) \in Whitespace THEN lstrip(Tail(t)) ELSE t

RECURSIVE rstrip(_)
rstrip(t) ==
    IF Len(t) > 0 /\ t[Len(t)] \in Whitespace THEN rstrip(SubSeq(t, 1, Len(t) - 1)) ELSE t

\* Line 120 of app.py: x.strip().
strip(t) == rstrip(lstrip(t))

\* Lines 120-121 of app.py: the text column cleaned, the empty rows removed.
clean_text_column(cells) ==
    SelectSeq([i \in 1..Len(cells) |-> strip(astype_str(cells[i]))],
              LAMBDA t : Len(t) > 0)

\* The sentence splitter's and the tagger's answer for a cleaned text.
tagged_sentence_of(t) ==
    CHOOSE ts \in TaggedSentences \cup { NanSentence } : ts.sentence = t

----------------------------------------------------------------------------
(* The sentiment aggregator as a state machine *)

\* The variables of the aspect extractor.
aspect_vars == << noun_phrases, sentences, pos_tags, aspects_returned, tagger_used >>

\* The aspect extractor is not called.
AspectIdle ==
    /\ noun_phrases = <<>>
    /\ sentences = <<>>
    /\ pos_tags = <<>>
    /\ aspects_returned = <<>>
    /\ tagger_used = FALSE

\* The variables of the components that a call of the sentiment aggregator
\* or of the emotion classifier leaves alone.
resolver_vars == << sentence_scores, aspect_results >>

\* The aspect resolver is not called.
ResolverIdle ==
    /\ sentence_scores = <<>>
    /\ aspect_results = <<>>

engine_vars == << resources, sia, downloads >>

\* The module has been imported with every resource installed.
EngineLoaded ==
    /\ resources = Resources
    /\ sia = "loaded"
    /\ downloads = <<>>

app_vars == << now, analysis_results, db_rows, history, db_return, saved_results >>

\* No database function has been called on its own yet.
NoReturn ==
    [ call |-> 0, op |-> "", id |-> 0, none |-> FALSE, flag |-> FALSE, number |-> 0,
      records |-> <<>>, printed |-> "" ]

\* The application has analysed nothing and its table is empty.
AppIdle ==
    /\ now = 0
    /\ analysis_results = <<>>
    /\ db_rows = <<>>
    /\ history = <<>>
    /\ db_return = NoReturn
    /\ saved_results = <<>>

csv_vars == << csv_file, csv_texts, csv_results, csv_return >>

\* No file is uploaded.
CsvIdle ==
    /\ csv_file = [has_text |-> FALSE, cells |-> <<>>]
    /\ csv_texts = <<>>
    /\ csv_results = <<>>
    /\ csv_return = "None"

\* No concurrent calls are running.
ThreadsIdle == threads = <<>>

later_vars == << aspect_vars, resolver_vars, engine_vars, app_vars, csv_vars, threads >>

LaterIdle == AspectIdle /\ ResolverIdle /\ EngineLoaded /\ AppIdle /\ CsvIdle /\ ThreadsIdle

\* The emotion classifier is not called.
EmotionIdle ==
    /\ emotion_classifier = "None"
    /\ classifier_answer = [kind |-> "raises", value |-> <<>>]
    /\ emotion_results = <<>>
    /\ classifiers_run = <<>>
    /\ raised = FALSE

emotion_vars == << emotion_classifier, classifier_answer, emotion_results,
                   classifiers_run, raised >>

sentiment_vars == << vader_scores, blob_sentiment, sentiments >>

InitSentiment ==
    /\ pc = "ready"
    /\ text \in SentimentTexts
    /\ vader_scores \in VaderOutputs(text)
    /\ blob_sentiment \in BlobOutputs(text)
    /\ sentiments = <<>>
    /\ EmotionIdle
    /\ LaterIdle

\* A call of perform_basic_sentiment_analysis(text) runs and returns.
BasicSentimentCall ==
    /\ pc = "ready"
    /\ sentiments' = Append(sentiments,
                            perform_basic_sentiment_analysis(vader_scores, blob_sentiment))
    /\ pc' = "returned"
    /\ UNCHANGED << text, vader_scores, blob_sentiment, emotion_vars, later_vars >>

\* The caller goes on to another text.
NextSentimentText ==
    /\ pc = "returned"
    /\ Len(sentiments) < MaxCalls
    /\ \E t \in SentimentTexts :
         /\ text' = t
         /\ vader_scores' \in VaderOutputs(t)
         /\ blob_sentiment' \in BlobOutputs(t)
    /\ pc' = "ready"
    /\ UNCHANGED << sentiments, emotion_vars, later_vars >>

NextSentiment == BasicSentimentCall \/ NextSentimentText

SpecSentiment == InitSentiment /\ [][NextSentiment]_vars

----------------------------------------------------------------------------
(* The emotion classifier as a state machine *)

\* The sentiment aggregator is not called.
SentimentIdle ==
    /\ vader_scores = [compound |-> 0, pos |-> 0, neg |-> 0, neu |-> 0]
    /\ blob_sentiment = [polarity |-> 0, subjectivity |-> 0]
    /\ sentiments = <<>>

\* The repository as it is: emotion_classifier = None (line 20).
InitEmotion ==
    /\ pc = "ready"
    /\ text \in EmotionTexts
    /\ emotion_classifier = "None"
    /\ classifier_answer = [kind |-> "raises", value |-> <<>>]
    /\ emotion_results = <<>>
    /\ classifiers_run = <<>>
    /\ raised = FALSE
    /\ SentimentIdle
    /\ LaterIdle

\* The repository with a classifier assigned to emotion_classifier, or not.
InitClassifier ==
    /\ pc = "ready"
    /\ text \in ClassifierTexts
    /\ emotion_classifier \in Classifiers
    /\ classifier_answer \in ClassifierAnswers
    /\ emotion_results = <<>>
    /\ classifiers_run = <<>>
    /\ raised = FALSE
    /\ SentimentIdle
    /\ LaterIdle

\* A call of perform_emotion_analysis(text) runs and returns or raises.
EmotionCall ==
    /\ pc = "ready"
    /\ LET r == perform_emotion_analysis(emotion_classifier, classifier_answer, text)
       IN  /\ emotion_results' = IF r.raised THEN emotion_results
                                              ELSE Append(emotion_results, r.value)
           /\ classifiers_run' = r.ran
           /\ raised' = r.raised
    /\ pc' = "returned"
    /\ UNCHANGED << text, emotion_classifier, classifier_answer, sentiment_vars, later_vars >>

NextEmotion == EmotionCall

SpecEmotion == InitEmotion /\ [][NextEmotion]_vars

SpecClassifier == InitClassifier /\ [][NextEmotion]_vars

\* The keywords of lines 95-99 that occur in a text (line 101: lowered).
KeywordsIn(t) ==
    LET text_lower == lower(t)
    IN  { w \in UNION { { emotion_words[e][k] : k \in 1..Len(emotion_words[e]) } :
                          e \in KeywordEmotions } : Contains(w, text_lower) }

\* The lexicon classifier is run on texts of at most two phrases.
InitRepeat ==
    /\ pc = "ready"
    /\ text \in TextsUpTo(MaxPhrases - 1)
    /\ emotion_classifier = "None"
    /\ classifier_answer = [kind |-> "raises", value |-> <<>>]
    /\ emotion_results = <<>>
    /\ classifiers_run = <<>>
    /\ raised = FALSE
    /\ SentimentIdle
    /\ LaterIdle

\* The caller appends a further occurrence of a keyword that the text
\* already has, and is ready to call again.
AppendKeyword ==
    /\ pc = "returned"
    /\ Len(emotion_results) < MaxCalls
    /\ \E w \in KeywordsIn(text) : text' = text \o <<" ">> \o w
    /\ pc' = "ready"
    /\ UNCHANGED << emotion_classifier, classifier_answer, emotion_results,
                    classifiers_run, raised, sentiment_vars, later_vars >>

NextRepeat == EmotionCall \/ AppendKeyword

SpecRepeat == InitRepeat /\ [][NextRepeat]_vars

----------------------------------------------------------------------------
(* The aspect extractor as a state machine *)

\* The text of a list of tagged sentences, and the answers of the sentence
\* splitter and of the tagger for it.
SentencesOf(list) == [i \in 1..Len(list) |-> list[i].sentence]

TagsOf(list) == [i \in 1..Len(list) |-> list[i].tags]

\* Either the chunker yields noun phrases for the text, or it yields none
\* and the text is any list of tagged sentences.
InitExtract ==
    /\ pc = "ready"
    /\ \E list \in SentenceLists :
         /\ text = JoinPhrases(SentencesOf(list))
         /\ sentences = SentencesOf(list)
         /\ pos_tags = TagsOf(list)
         /\ noun_phrases \in (IF list = ChunkedSentences THEN NounPhraseLists ELSE { <<>> })
    /\ aspects_returned = <<>>
    /\ tagger_used = FALSE
    /\ SentimentIdle
    /\ EmotionIdle
    /\ ResolverIdle
    /\ EngineLoaded
    /\ AppIdle
    /\ CsvIdle
    /\ ThreadsIdle

\* A call of extract_aspects(text) runs and returns or raises.
ExtractCall ==
    /\ pc = "ready"
    /\ \E got \in BOOLEAN :
         LET e == extract_aspects_resources(noun_phrases, sentences, resources, got)
         IN  /\ resources' = e.resources
             /\ downloads' = downloads \o e.downloads
             /\ raised' = e.raised
             /\ aspects_returned' =
                  IF e.raised THEN aspects_returned
                  ELSE Append(aspects_returned, extract_aspects(noun_phrases, pos_tags))
             /\ tagger_used' = ("punkt" \in resources /\ takes_tagger_branch(noun_phrases))
    /\ pc' = "returned"
    /\ UNCHANGED << text, noun_phrases, sentences, pos_tags, sentiment_vars,
                    emotion_classifier, classifier_answer, emotion_results, classifiers_run,
                    resolver_vars, sia, app_vars, csv_vars, threads >>

NextExtract == ExtractCall

SpecExtract == InitExtract /\ [][NextExtract]_vars

----------------------------------------------------------------------------
(* The aspect resolver as a state machine *)

\* The scorers' answers for the whole text: zero for a text without
\* tokens.  A text of one sentence is that sentence, and is scored as it.
OverallAnswers(t) ==
    IF IsBlank(t)
    THEN { [vader |-> [compound |-> 0, pos |-> 0, neg |-> 0, neu |-> 0],
            blob  |-> [polarity |-> 0, subjectivity |-> 0]] }
    ELSE ResolverAnswers

\* A text of tagged sentences, the chunker's answer for it, and the
\* scorers' answers for each of its sentences and for the whole of it.
InitAspects ==
    /\ pc = "ready"
    /\ \E list \in SentenceLists :
         /\ text = JoinPhrases(SentencesOf(list))
         /\ sentences = SentencesOf(list)
         /\ pos_tags = TagsOf(list)
         /\ noun_phrases \in (IF Len(list) = 0 THEN { <<>> } ELSE ResolverNounPhrases)
         /\ sentence_scores \in [ { list[i].sentence : i \in 1..Len(list) } -> ResolverAnswers ]
    /\ \E overall \in OverallAnswers(text) :
         /\ Len(sentences) = 1 => overall = sentence_scores[sentences[1]]
         /\ vader_scores = overall.vader
         /\ blob_sentiment = overall.blob
    /\ sentiments = <<>>
    /\ aspects_returned = <<>>
    /\ tagger_used = FALSE
    /\ aspect_results = <<>>
    /\ EmotionIdle
    /\ EngineLoaded
    /\ AppIdle
    /\ CsvIdle
    /\ ThreadsIdle

\* A call of perform_aspect_based_analysis(text) runs and returns, or
\* raises as its call of extract_aspects (line 185) does.
AspectCall ==
    /\ pc = "ready"
    /\ \E got \in BOOLEAN :
         LET e == extract_aspects_resources(noun_phrases, sentences, resources, got)
         IN  /\ resources' = e.resources
             /\ downloads' = downloads \o e.downloads
             /\ raised' = e.raised
             /\ aspects_returned' =
                  IF e.raised THEN aspects_returned
                  ELSE Append(aspects_returned, extract_aspects(noun_phrases, pos_tags))
             /\ aspect_results' =
                  IF e.raised THEN aspect_results
                  ELSE Append(aspect_results,
                              perform_aspect_based_analysis(
                                  noun_phrases, pos_tags, sentences, sentence_scores,
                                  [vader |-> vader_scores, blob |-> blob_sentiment]))
             /\ tagger_used' = ("punkt" \in resources /\ takes_tagger_branch(noun_phrases))
    /\ pc' = "returned"
    /\ UNCHANGED << text, noun_phrases, sentences, pos_tags, sentence_scores,
                    vader_scores, blob_sentiment, sentiments,
                    emotion_classifier, classifier_answer, emotion_results, classifiers_run,
                    sia, app_vars, csv_vars, threads >>

NextAspects == AspectCall

SpecAspects == InitAspects /\ [][NextAspects]_vars

\* The answers of the two scorers at the ends of their range: both -1.0
\* or both 1.0.
ExtremeAnswers ==
    { [vader |-> [compound |-> c, pos |-> Half, neg |-> 0, neu |-> Half],
       blob  |-> [polarity |-> c, subjectivity |-> One]] : c \in { -One, One } }

\* As InitAspects, with every sentence and the whole text scored at an end
\* of the range.
InitExtremes ==
    /\ pc = "ready"
    /\ \E list \in SentenceLists :
         /\ Len(list) > 0
         /\ text = JoinPhrases(SentencesOf(list))
         /\ sentences = SentencesOf(list)
         /\ pos_tags = TagsOf(list)
         /\ noun_phrases \in ResolverNounPhrases
         /\ sentence_scores \in [ { list[i].sentence : i \in 1..Len(list) } -> ExtremeAnswers ]
    /\ \E overall \in ExtremeAnswers :
         /\ Len(sentences) = 1 => overall = sentence_scores[sentences[1]]
         /\ vader_scores = overall.vader
         /\ blob_sentiment = overall.blob
    /\ sentiments = <<>>
    /\ aspects_returned = <<>>
    /\ tagger_used = FALSE
    /\ aspect_results = <<>>
    /\ EmotionIdle
    /\ EngineLoaded
    /\ AppIdle
    /\ CsvIdle
    /\ ThreadsIdle

SpecExtremes == InitExtremes /\ [][NextAspects]_vars

----------------------------------------------------------------------------
(* The engine from its import on, as a state machine *)

\* The module is not imported yet; any of the resources may be installed.
\* The text has at most one sentence.
InitEngine ==
    /\ pc = "start"
    /\ resources \in SUBSET Resources
    /\ sia = "undefined"
    /\ downloads = <<>>
    /\ \E list \in { l \in SentenceLists : Len(l) <= 1 } :
         /\ text = JoinPhrases(SentencesOf(list))
         /\ sentences = SentencesOf(list)
         /\ pos_tags = TagsOf(list)
         /\ noun_phrases \in (IF Len(list) = 0 THEN { <<>> }
                              ELSE { ps \in ResolverNounPhrases : Len(ps) <= 1 })
         /\ sentence_scores \in [ { list[i].sentence : i \in 1..Len(list) } -> ResolverAnswers ]
    /\ \E overall \in OverallAnswers(text) :
         /\ Len(sentences) = 1 => overall = sentence_scores[sentences[1]]
         /\ vader_scores = overall.vader
         /\ blob_sentiment = overall.blob
    /\ sentiments = <<>>
    /\ aspects_returned = <<>>
    /\ tagger_used = FALSE
    /\ aspect_results = <<>>
    /\ EmotionIdle
    /\ AppIdle
    /\ CsvIdle
    /\ ThreadsIdle

\* Lines 9-20: the module is imported; the import raises if the scorer
\* cannot be built.
ImportModule ==
    /\ pc = "start"
    /\ \E got \in [ { "vader_lexicon", "punkt" } -> BOOLEAN ] :
         LET m == import_module(resources, got)
         IN  /\ resources' = m.resources
             /\ downloads' = downloads \o m.downloads
             /\ sia' = IF m.raised THEN sia ELSE "loaded"
             /\ pc' = IF m.raised THEN "failed" ELSE "ready"
    /\ UNCHANGED << text, sentiment_vars, emotion_vars, aspect_vars, resolver_vars, app_vars,
                    csv_vars, threads >>

NextEngine ==
    ImportModule \/ BasicSentimentCall \/ EmotionCall \/ ExtractCall \/ AspectCall

SpecEngine == InitEngine /\ [][NextEngine]_vars

----------------------------------------------------------------------------
(* Concurrent calls of extract_aspects *)

\* Two analyses run at once.
Threads == { 1, 2 }

Tagger == "averaged_perceptron_tagger"

\* A call that has not started: its text (the answers of the chunker, the
\* sentence splitter and the tagger for it) and whether nltk.download
\* would obtain the tagger when this call asks for it.
NewThread(list, phrases, got) ==
    [ at        |-> "start",
      sentences |-> SentencesOf(list),
      pos_tags  |-> TagsOf(list),
      phrases   |-> phrases,
      got       |-> got,
      found     |-> FALSE,
      wrote     |-> {},
      raised    |-> FALSE,
      aspects   |-> <<>> ]

\* What the call returns when it runs alone on the machine as it is at the
\* start.
Alone(t, installed) ==
    LET e == extract_aspects_resources(threads[t].phrases, threads[t].sentences,
                                       installed, threads[t].got)
    IN  [ raised  |-> e.raised,
          aspects |-> IF e.raised THEN <<>>
                      ELSE extract_aspects(threads[t].phrases, threads[t].pos_tags) ]

\* The module is imported, the tagger installed or not, and two calls on
\* different texts are about to run.
InitConcurrent ==
    /\ pc = "ready"
    /\ text = <<>>
    /\ SentimentIdle
    /\ EmotionIdle
    /\ AspectIdle
    /\ ResolverIdle
    /\ AppIdle
    /\ CsvIdle
    /\ sia = "loaded"
    /\ downloads = <<>>
    /\ resources \in { Resources, Resources \ { Tagger } }
    /\ \E first, second \in { l \in SentenceLists : Len(l) <= 1 } :
         /\ first # second
         /\ \E p1, p2 \in { <<>>, << <<"f","o","o","d">> >> } : \E g1, g2 \in BOOLEAN :
              threads = << NewThread(first, p1, g1), NewThread(second, p2, g2) >>

\* Lines 143-152: the chunker and the sentence splitter answer; with noun
\* phrases the call goes on to line 169, without to line 153.
ThreadStart(t) ==
    /\ threads[t].at = "start"
    /\ threads' = [threads EXCEPT ![t].at =
                      IF takes_tagger_branch(threads[t].phrases) THEN "find" ELSE "collect"]
    /\ UNCHANGED << resources, downloads >>

\* Lines 153-155: nltk.data.find looks for the tagger on the machine.
ThreadFind(t) ==
    /\ threads[t].at = "find"
    /\ threads' = [threads EXCEPT ![t].found = Tagger \in resources,
                                  ![t].at = IF Tagger \in resources THEN "collect"
                                            ELSE "download"]
    /\ UNCHANGED << resources, downloads >>

\* Line 156: nltk.download installs the tagger, or fails and returns False.
ThreadDownload(t) ==
    /\ threads[t].at = "download"
    /\ resources' = IF threads[t].got THEN resources \cup { Tagger } ELSE resources
    /\ downloads' = Append(downloads, Download(Tagger, "call"))
    /\ threads' = [threads EXCEPT ![t].wrote = IF threads[t].got THEN { Tagger } ELSE {},
                                  ![t].at = "collect"]

\* Lines 158-178: the nouns are tagged (nltk.pos_tag raises LookupError
\* without the tagger) or the noun phrases taken, and the list returned.
ThreadCollect(t) ==
    /\ threads[t].at = "collect"
    /\ LET fails == /\ takes_tagger_branch(threads[t].phrases)
                    /\ Len(threads[t].sentences) > 0
                    /\ Tagger \notin resources
       IN  threads' = [threads EXCEPT
                         ![t].raised = fails,
                         ![t].aspects = IF fails THEN <<>>
                                        ELSE extract_aspects(threads[t].phrases,
                                                             threads[t].pos_tags),
                         ![t].at = "returned"]
    /\ UNCHANGED << resources, downloads >>

\* One of the calls takes its next step; the rest of the program stands
\* still.
ThreadStep ==
    /\ \E t \in Threads :
         IF threads[t].at = "start" THEN ThreadStart(t)
         ELSE IF threads[t].at = "find" THEN ThreadFind(t)
         ELSE IF threads[t].at = "download" THEN ThreadDownload(t)
         ELSE ThreadCollect(t)
    /\ UNCHANGED << pc, text, sentiment_vars, emotion_vars, aspect_vars, resolver_vars,
                    sia, app_vars, csv_vars >>

NextConcurrent == ThreadStep

SpecConcurrent == InitConcurrent /\ [][NextConcurrent]_vars

----------------------------------------------------------------------------
(* The application's analyze_text as a state machine *)

\* A text of at most one sentence, the answers of the libraries for it, an
\* empty table and the clock at any tick.
InitAnalyze ==
    /\ pc = "ready"
    /\ \E list \in { l \in SentenceLists : Len(l) <= 1 } :
         /\ text = JoinPhrases(SentencesOf(list))
         /\ sentences = SentencesOf(list)
         /\ pos_tags = TagsOf(list)
         /\ noun_phrases \in (IF Len(list) = 0 THEN { <<>> }
                              ELSE { ps \in ResolverNounPhrases : Len(ps) <= 1 })
         /\ sentence_scores \in [ { list[i].sentence : i \in 1..Len(list) } -> ResolverAnswers ]
    /\ \E overall \in OverallAnswers(text) :
         /\ Len(sentences) = 1 => overall = sentence_scores[sentences[1]]
         /\ vader_scores = overall.vader
         /\ blob_sentiment = overall.blob
    /\ sentiments = <<>>
    /\ aspects_returned = <<>>
    /\ tagger_used = FALSE
    /\ aspect_results = <<>>
    /\ EmotionIdle
    /\ EngineLoaded
    /\ now \in 0..MaxClock
    /\ analysis_results = <<>>
    /\ db_rows = <<>>
    /\ history = <<>>
    /\ db_return = NoReturn
    /\ saved_results = <<>>
    /\ CsvIdle
    /\ ThreadsIdle

\* Lines 71-102 of app.py: a call of analyze_text(text).  The three engine
\* calls run in turn; an exception of one of them ends the call.  The
\* result is saved and the history reloaded; neither save_analysis nor
\* get_all_analyses raises.
AnalyzeCall ==
    /\ pc = "ready"
    /\ \E got, committed, queried \in BOOLEAN :
         LET sentiment_result == perform_basic_sentiment_analysis(vader_scores, blob_sentiment)
             emotion == perform_emotion_analysis(emotion_classifier, classifier_answer, text)
             e == extract_aspects_resources(noun_phrases, sentences, resources, got)
             aspect_result ==
                 perform_aspect_based_analysis(
                     noun_phrases, pos_tags, sentences, sentence_scores,
                     [vader |-> vader_scores, blob |-> blob_sentiment])
             result == analysis_result(now, text, sentiment_result, emotion.value,
                                       aspect_result)
             rows == save_analysis(result, db_rows, committed)
         IN  /\ sentiments' = Append(sentiments, sentiment_result)
             /\ classifiers_run' = emotion.ran
             /\ emotion_results' = IF emotion.raised THEN emotion_results
                                    ELSE Append(emotion_results, emotion.value)
             /\ IF emotion.raised
                THEN /\ raised' = TRUE
                     /\ UNCHANGED << resources, downloads, aspects_returned, tagger_used,
                                     aspect_results, analysis_results, db_rows, history,
                                     saved_results >>
                ELSE /\ resources' = e.resources
                     /\ downloads' = downloads \o e.downloads
                     /\ raised' = e.raised
                     /\ tagger_used' = ("punkt" \in resources
                                           /\ takes_tagger_branch(noun_phrases))
                     /\ IF e.raised
                        THEN UNCHANGED << aspects_returned, aspect_results,
                                          analysis_results, db_rows, history,
                                          saved_results >>
                        ELSE /\ aspects_returned' =
                                  Append(aspects_returned,
                                         extract_aspects(noun_phrases, pos_tags))
                             /\ aspect_results' = Append(aspect_results, aspect_result)
                             /\ analysis_results' = Append(analysis_results, result)
                             /\ db_rows' = rows
                             /\ saved_results' =
                                  IF save_fails(result, committed) THEN saved_results
                                  ELSE Append(saved_results,
                                              [id |-> next_id(db_rows), result |-> result])
                             /\ history' \in get_all_analyses(rows, queried)
    /\ pc' = "returned"
    /\ UNCHANGED << text, noun_phrases, sentences, pos_tags, sentence_scores,
                    vader_scores, blob_sentiment, emotion_classifier, classifier_answer,
                    sia, now, db_return, csv_vars, threads >>

\* The wall clock advances.
Tick ==
    /\ now < MaxClock
    /\ now' = now + 1
    /\ UNCHANGED << pc, text, sentiment_vars, emotion_vars, aspect_vars, resolver_vars,
                    engine_vars, analysis_results, db_rows, history, db_return,
                    saved_results, csv_vars, threads >>

\* The user has the same text analysed again.
AnalyzeAgain ==
    /\ pc = "returned"
    /\ Len(analysis_results) < MaxCalls
    /\ ~raised
    /\ pc' = "ready"
    /\ UNCHANGED << text, sentiment_vars, emotion_vars, aspect_vars, resolver_vars,
                    engine_vars, app_vars, csv_vars, threads >>

NextAnalyze == AnalyzeCall \/ Tick \/ AnalyzeAgain

SpecAnalyze == InitAnalyze /\ [][NextAnalyze]_vars

----------------------------------------------------------------------------
(* The application's process_csv as a state machine *)

\* A file is uploaded; the scorers have an answer for each text it can
\* give rise to.
InitCsv ==
    /\ pc = "upload"
    /\ csv_file \in CsvFiles
    /\ csv_texts = <<>>
    /\ csv_results = <<>>
    /\ csv_return = "running"
    /\ sentence_scores \in
         [ { strip(astype_str(csv_file.cells[i])) : i \in 1..Len(csv_file.cells) } \ { <<>> }
             -> ResolverAnswers ]
    /\ text = <<>>
    /\ SentimentIdle
    /\ EmotionIdle
    /\ AspectIdle
    /\ aspect_results = <<>>
    /\ EngineLoaded
    /\ AppIdle
    /\ ThreadsIdle

\* Lines 105-125 of app.py: the file is read and its text column cleaned;
\* without a text column process_csv returns None.
CsvRead ==
    /\ pc = "upload"
    /\ IF csv_file.has_text
       THEN /\ csv_texts' = clean_text_column(csv_file.cells)
            /\ pc' = "rows"
            /\ UNCHANGED csv_return
       ELSE /\ csv_return' = "None"
            /\ pc' = "done"
            /\ UNCHANGED csv_texts
    /\ UNCHANGED << text, csv_file, csv_results, sentiment_vars, emotion_vars, aspect_vars,
                    resolver_vars, engine_vars, app_vars, threads >>

\* Lines 127-130 of app.py: the loop takes the next row and calls
\* analyze_text on its text.  The chunker is taken to yield no noun phrase
\* for these texts.
CsvRow ==
    /\ pc = "rows"
    /\ Len(csv_texts) > 0
    /\ LET t == Head(csv_texts)
       IN  /\ text' = t
           /\ sentences' = << tagged_sentence_of(t).sentence >>
           /\ pos_tags' = << tagged_sentence_of(t).tags >>
           /\ noun_phrases' = <<>>
           /\ vader_scores' = sentence_scores[t].vader
           /\ blob_sentiment' = sentence_scores[t].blob
    /\ pc' = "ready"
    /\ UNCHANGED << sentiments, emotion_vars, aspects_returned, tagger_used, resolver_vars,
                    engine_vars, app_vars, csv_vars, threads >>

\* Lines 131-135 of app.py: the result of the row is kept, or the row is
\* skipped if analyze_text raised.
CsvCollect ==
    /\ pc = "returned"
    /\ csv_return = "running"
    /\ csv_results' = IF raised THEN csv_results
                      ELSE Append(csv_results, analysis_results[Len(analysis_results)])
    /\ csv_texts' = Tail(csv_texts)
    /\ pc' = "rows"
    /\ UNCHANGED << text, csv_file, csv_return, sentiment_vars, emotion_vars, aspect_vars,
                    resolver_vars, engine_vars, app_vars, threads >>

\* Lines 137-141 of app.py: the loop is over.
CsvFinish ==
    /\ pc = "rows"
    /\ Len(csv_texts) = 0
    /\ csv_return' = IF Len(csv_results) = 0 THEN "None" ELSE "DataFrame"
    /\ pc' = "done"
    /\ UNCHANGED << text, csv_file, csv_texts, csv_results, sentiment_vars, emotion_vars,
                    aspect_vars, resolver_vars, engine_vars, app_vars, threads >>

NextCsv == CsvRead \/ CsvRow \/ AnalyzeCall \/ CsvCollect \/ CsvFinish

SpecCsv == InitCsv /\ [][NextCsv]_vars

\* A file is uploaded to an application whose engine was imported with the
\* scorer's lexicon and punkt installed and the tagger not: the import
\* (lines 9-17 of sentiment_analyzer.py) does not look for the tagger.
InitCsvNoTagger ==
    /\ pc = "upload"
    /\ csv_file \in CsvFiles
    /\ csv_texts = <<>>
    /\ csv_results = <<>>
    /\ csv_return = "running"
    /\ sentence_scores \in
         [ { strip(astype_str(csv_file.cells[i])) : i \in 1..Len(csv_file.cells) } \ { <<>> }
             -> ResolverAnswers ]
    /\ text = <<>>
    /\ SentimentIdle
    /\ EmotionIdle
    /\ AspectIdle
    /\ aspect_results = <<>>
    /\ resources = Resources \ { "averaged_perceptron_tagger" }
    /\ sia = "loaded"
    /\ downloads = <<>>
    /\ AppIdle
    /\ ThreadsIdle

SpecCsvNoTagger == InitCsvNoTagger /\ [][NextCsv]_vars

----------------------------------------------------------------------------
(* The database functions as a state machine *)

\* The result of analyze_text at an instant for a text of the one sentence
\* "Food was good.", scored 0.1 by both scorers, the chunker yielding no
\* noun phrase.
SentenceResult(instant) ==
    LET ts     == CHOOSE x \in TaggedSentences : x.sentence[1] = "F"
        answer == CHOOSE a \in ResolverAnswers : a.vader.compound = 2 * Threshold
    IN  analysis_result(instant, ts.sentence,
                        perform_basic_sentiment_analysis(answer.vader, answer.blob),
                        lexicon_emotions(ts.sentence),
                        perform_aspect_based_analysis(
                            <<>>, << ts.tags >>, << ts.sentence >>,
                            [x \in { ts.sentence } |-> answer], answer))

\* The result of analyze_text at an instant for the empty text.
EmptyResult(instant) ==
    LET zero == CHOOSE a \in OverallAnswers(<<>>) : TRUE
    IN  analysis_result(instant, <<>>,
                        perform_basic_sentiment_analysis(zero.vader, zero.blob),
                        lexicon_emotions(<<>>), <<>>)

\* What save_analysis is called with: a result of analyze_text, or such a
\* result with a timestamp that is not of the format.
SaveInputs(instant) ==
    { SentenceResult(instant), EmptyResult(instant),
      [SentenceResult(instant) EXCEPT !.timestamp = -1] }

\* The table is empty and the clock is at any tick.
InitDatabase ==
    /\ pc = "ready"
    /\ text = <<>>
    /\ SentimentIdle
    /\ EmotionIdle
    /\ AspectIdle
    /\ ResolverIdle
    /\ EngineLoaded
    /\ CsvIdle
    /\ ThreadsIdle
    /\ now \in 0..MaxClock
    /\ analysis_results = <<>>
    /\ db_rows = <<>>
    /\ history = <<>>
    /\ db_return = NoReturn
    /\ saved_results = <<>>

\* A call of save_analysis(analysis_result).
DbSave ==
    /\ pc = "ready"
    /\ db_return.call < MaxOps
    /\ \E input \in SaveInputs(now), committed \in BOOLEAN :
         LET r == save_analysis_return(input, db_rows, committed)
         IN  /\ db_rows' = save_analysis(input, db_rows, committed)
             /\ db_return' = [NoReturn EXCEPT !.call = db_return.call + 1, !.op = "save",
                                              !.none = r.none, !.number = r.number,
                                              !.printed = r.printed]
             /\ saved_results' = IF r.none THEN saved_results
                                  ELSE Append(saved_results, [id |-> r.number, result |-> input])
    /\ UNCHANGED << pc, text, sentiment_vars, emotion_vars, aspect_vars, resolver_vars,
                    engine_vars, now, analysis_results, history, csv_vars, threads >>

\* A call of delete_analysis(analysis_id).
DbDelete ==
    /\ pc = "ready"
    /\ db_return.call < MaxOps
    /\ \E analysis_id \in 1..MaxOps, committed \in BOOLEAN :
         LET r == delete_analysis(analysis_id, db_rows, committed)
         IN  /\ db_rows' = r.rows
             /\ db_return' = [NoReturn EXCEPT !.call = db_return.call + 1, !.op = "delete",
                                              !.id = analysis_id, !.flag = r.flag,
                                              !.printed = r.printed]
    /\ UNCHANGED << pc, text, sentiment_vars, emotion_vars, aspect_vars, resolver_vars,
                    engine_vars, now, analysis_results, history, saved_results, csv_vars, threads >>

\* A call of delete_all_analyses().
DbDeleteAll ==
    /\ pc = "ready"
    /\ db_return.call < MaxOps
    /\ \E committed \in BOOLEAN :
         LET r == delete_all_analyses(db_rows, committed)
         IN  /\ db_rows' = r.rows
             /\ db_return' = [NoReturn EXCEPT !.call = db_return.call + 1,
                                              !.op = "delete_all", !.number = r.number,
                                              !.printed = r.printed]
    /\ UNCHANGED << pc, text, sentiment_vars, emotion_vars, aspect_vars, resolver_vars,
                    engine_vars, now, analysis_results, history, saved_results, csv_vars, threads >>

\* A call of get_all_analyses().
DbGetAll ==
    /\ pc = "ready"
    /\ db_return.call < MaxOps
    /\ \E queried \in BOOLEAN :
         \E records \in get_all_analyses(db_rows, queried) :
             db_return' = [NoReturn EXCEPT !.call = db_return.call + 1, !.op = "get_all",
                                          !.records = records,
                                          !.printed = IF queried THEN ""
                                                      ELSE "Error retrieving from database"]
    /\ UNCHANGED << pc, text, sentiment_vars, emotion_vars, aspect_vars, resolver_vars,
                    engine_vars, now, analysis_results, db_rows, history, saved_results,
                    csv_vars, threads >>

\* A call of get_analysis_by_id(analysis_id).
DbGetById ==
    /\ pc = "ready"
    /\ db_return.call < MaxOps
    /\ \E analysis_id \in 1..MaxOps, queried \in BOOLEAN :
         LET r == get_analysis_by_id(analysis_id, db_rows, queried)
         IN  db_return' = [NoReturn EXCEPT !.call = db_return.call + 1, !.op = "get_by_id",
                                          !.id = analysis_id, !.none = r.none,
                                          !.records = r.records, !.printed = r.printed]
    /\ UNCHANGED << pc, text, sentiment_vars, emotion_vars, aspect_vars, resolver_vars,
                    engine_vars, now, analysis_results, db_rows, history, saved_results,
                    csv_vars, threads >>

NextDatabase == DbSave \/ DbDelete \/ DbDeleteAll \/ DbGetAll \/ DbGetById

SpecDatabase == InitDatabase /\ [][NextDatabase]_vars

----------------------------------------------------------------------------
(* Properties of the sentiment aggregator (SpecSentiment) *)

\* The result of the call that has just returned.
LastSentiment == sentiments[Len(sentiments)]

Returned == pc = "returned" /\ Len(sentiments) > 0

\* C1: every result is Positive exactly when its compound is >= 0.05,
\* Negative exactly when it is <= -0.05, and Neutral exactly when it is
\* neither; it carries one of these three classifications.
C1_ClassificationByThreshold ==
    \A i \in 1..Len(sentiments) :
        LET r == sentiments[i]
        IN  /\ r.classification \in { "Positive", "Negative", "Neutral" }
            /\ (r.classification = "Positive") <=> (20 * r.compound >= One)
            /\ (r.classification = "Negative") <=> (20 * r.compound <= -One)
            /\ (r.classification = "Neutral")
                   <=> (20 * r.compound < One /\ 20 * r.compound > -One)

\* C1 witness: two calls have returned, one with compound exactly 0.05
\* (Positive) and one with compound 0.025 (Neutral, not zero).
C1_Witness ==
    /\ Len(sentiments) = 2
    /\ 20 * sentiments[1].compound = One
    /\ sentiments[1].classification = "Positive"
    /\ 40 * sentiments[2].compound = One
    /\ sentiments[2].classification = "Neutral"

\* C2: the confidence of every result is min(1.0, |compound| + 0.5) and
\* lies in [0.5, 1.0].
C2_ConfidenceFormulaAndRange ==
    \A i \in 1..Len(sentiments) :
        LET r == sentiments[i]
            m == IF r.compound < 0 THEN -r.compound ELSE r.compound
        IN  /\ 2 * r.confidence = (IF 2 * m + One <= 2 * One THEN 2 * m + One ELSE 2 * One)
            /\ 2 * r.confidence >= One
            /\ r.confidence <= One

\* C2 witness: one result whose confidence is capped (|compound| = 0.75)
\* and one whose confidence is 0.5.
C2_Witness ==
    /\ Len(sentiments) = 2
    /\ 4 * sentiments[1].compound = -3 * One
    /\ sentiments[1].confidence = One
    /\ sentiments[2].compound = 0
    /\ 2 * sentiments[2].confidence = One

\* C3 as stated: of two results, the one with the larger |compound| has
\* the strictly larger confidence.
C3_StrictlyIncreasing ==
    \A i, j \in 1..Len(sentiments) :
        Abs(sentiments[i].compound) < Abs(sentiments[j].compound)
            => sentiments[i].confidence < sentiments[j].confidence

\* C3 amended: the confidence is non-decreasing in |compound|; it is
\* strictly increasing where the smaller |compound| is below 0.5, and it is
\* 1.0 for every |compound| >= 0.5.
C3_NonDecreasingStrictBelowCap ==
    \A i, j \in 1..Len(sentiments) :
        LET ci == Abs(sentiments[i].compound)
            cj == Abs(sentiments[j].compound)
        IN  /\ ci < cj => sentiments[i].confidence <= sentiments[j].confidence
            /\ (ci < cj /\ 2 * ci < One)
                   => sentiments[i].confidence < sentiments[j].confidence
            /\ 2 * ci >= One => sentiments[i].confidence = One

\* C3 witness: two results with different |compound|, both at least 0.5,
\* and so with the same confidence.
C3_Witness ==
    /\ Len(sentiments) = 2
    /\ 2 * Abs(sentiments[1].compound) >= One
    /\ Abs(sentiments[1].compound) < Abs(sentiments[2].compound)
    /\ sentiments[1].confidence = sentiments[2].confidence

\* C4: the compound of the result is the arithmetic mean of the lexicon
\* scorer's compound and the estimator's polarity, and lies in [-1, 1]
\* when both of them do.
C4_CompoundIsMean ==
    Returned =>
        /\ 2 * LastSentiment.compound = vader_scores.compound + blob_sentiment.polarity
        /\ ( /\ vader_scores.compound \in -One..One
             /\ blob_sentiment.polarity \in -One..One )
            => LastSentiment.compound \in -One..One

\* C4 witness: a call with the two scorers at 1.0 and 0.05 has returned.
C4_Witness ==
    /\ Returned
    /\ vader_scores.compound = One
    /\ 20 * blob_sentiment.polarity = One
    /\ 40 * LastSentiment.compound = 21 * One

\* C5: for the empty or a whitespace-only text the call returns (it is
\* never blocked by an error) with compound 0, classification Neutral and
\* confidence 0.5.
C5_BlankTextIsNeutral ==
    /\ (pc = "ready" /\ IsBlank(text)) => ENABLED BasicSentimentCall
    /\ (Returned /\ IsBlank(text)) =>
          /\ LastSentiment.compound = 0
          /\ LastSentiment.classification = "Neutral"
          /\ 2 * LastSentiment.confidence = One

\* C5 witness: a call on a text without tokens and then a call on a
\* whitespace-only text have both returned.
C5_Witness ==
    /\ Returned
    /\ Len(sentiments) = 2
    /\ text = << " ", "\t", "\n" >>
    /\ sentiments[1].compound = 0
    /\ sentiments[1].subjectivity = 0
    /\ sentiments[1].neutral = 0

----------------------------------------------------------------------------
(* Properties of the emotion classifier (SpecEmotion, SpecClassifier) *)

\* The dictionary the call that has just returned gave back.
LastEmotions == emotion_results[Len(emotion_results)]

EmotionReturned == pc = "returned" /\ Len(emotion_results) > 0

\* word occurs in t as a substring, letter case ignored.
OccursIgnoringCase(word, t) ==
    LET w  == lower(word)
        lt == lower(t)
    IN  \E i \in 1..(Len(lt) - Len(w) + 1) : SubSeq(lt, i, i + Len(w) - 1) = w

\* The number of words of emotion e's keyword list that occur in the text.
MatchCount(e) ==
    Cardinality({ k \in 1..Len(emotion_words[e]) :
                    OccursIgnoringCase(emotion_words[e][k], text) })

\* The sum of the five non-neutral values of a profile.
SumOfOthers(profile) ==
    profile["joy"] + profile["sadness"] + profile["anger"]
        + profile["fear"] + profile["surprise"]

C7_RangeAndNeutralDefault ==
    EmotionReturned =>
        /\ \A e \in DOMAIN LastEmotions :
              LastEmotions[e] >= 0 /\ LastEmotions[e] <= One
        /\ (\A e \in KeywordEmotions : MatchCount(e) = 0) =>
              /\ LastEmotions["neutral"] = One
              /\ \A e \in KeywordEmotions : LastEmotions[e] = 0

\* C7 witness: a text of three phrases without any emotion keyword.
C7_Witness ==
    /\ EmotionReturned
    /\ Len(text) > 10
    /\ \A e \in KeywordEmotions : MatchCount(e) = 0
    /\ LastEmotions["neutral"] = One

C9_SilentFallback ==
    pc = "returned" =>
        /\ emotion_classifier # "None" => classifiers_run[1] = "model"
        /\ (\E i \in 1..Len(classifiers_run) : classifiers_run[i] = "lexicon")
              => \/ emotion_classifier = "None"
                 \/ classifier_answer.kind = "raises"
                 \/ classifier_answer.value = <<>>
        /\ (emotion_classifier # "None" /\ classifier_answer.kind = "raises")
              => /\ ~raised
                 /\ Len(emotion_results) = 1
                 /\ emotion_results[1] = lexicon_emotions(text)
                 /\ classifiers_run = << "model", "lexicon" >>

\* C9 witness: the configured model raised on a text with a joy keyword and
\* the call returned a profile with joy at 0.2.
C9_Witness ==
    /\ pc = "returned"
    /\ emotion_classifier = "model"
    /\ classifier_answer.kind = "raises"
    /\ ~raised
    /\ Len(emotion_results) = 1
    /\ 5 * emotion_results[1]["joy"] = One

----------------------------------------------------------------------------
(* Properties of the aspect extractor (SpecExtract) *)

\* The list the call of extract_aspects that has just returned gave back.
LastAspects == aspects_returned[Len(aspects_returned)]

ExtractReturned == pc = "returned" /\ Len(aspects_returned) > 0

\* The elements of a list without the later repeats (exact equality), in
\* the order of their first occurrence.
FirstOccurrences(list) ==
    LET marked == [i \in 1..Len(list) |->
                     [v |-> list[i], first |-> \A j \in 1..(i - 1) : list[j] # list[i]]]
        firsts == SelectSeq(marked, LAMBDA m : m.first)
    IN  [k \in 1..Len(firsts) |-> firsts[k].v]

\* The elements of a list with more than two characters, in order.
LongerThanTwo(list) == SelectSeq(list, LAMBDA a : Len(a) > 2)

\* The first five elements of a list.
FirstFive(list) == SubSeq(list, 1, IF Len(list) < 5 THEN Len(list) ELSE 5)

\* The number of different elements of a list.
DistinctCount(list) == Cardinality({ list[i] : i \in 1..Len(list) })

\* C11: every list extract_aspects returns has at most 5 terms and no
\* term twice.
C11_AtMostFiveNoDuplicates ==
    \A k \in 1..Len(aspects_returned) :
        LET r == aspects_returned[k]
        IN  /\ Len(r) <= 5
            /\ \A i, j \in 1..Len(r) : i # j => r[i] # r[j]

\* C11 witness: the chunker yields six noun phrases, a repeat among them,
\* and five terms are returned.
C11_Witness ==
    /\ ExtractReturned
    /\ Len(noun_phrases) = 6
    /\ noun_phrases[1] = noun_phrases[3]
    /\ Len(LastAspects) = 5

\* C12 as stated: when the chunker yields a noun phrase, the result is the
\* first five distinct noun phrases in first-occurrence order and the
\* tagger is not consulted; the tagged-noun branch is taken only when the
\* chunker yields none.
C12_FirstFiveNounPhrases ==
    ExtractReturned =>
        /\ Len(noun_phrases) > 0 =>
              /\ LastAspects = FirstFive(FirstOccurrences(noun_phrases))
              /\ ~tagger_used
        /\ tagger_used => Len(noun_phrases) = 0

\* C12 amended: when the chunker yields a noun phrase, the result is the
\* first five distinct noun phrases of more than 2 characters, in
\* first-occurrence order, and the tagger is not consulted; the
\* tagged-noun branch is taken only when the chunker yields none, and then
\* every term is a tagged noun of more than 2 characters.
C12_FirstFiveLongNounPhrases ==
    ExtractReturned =>
        /\ Len(noun_phrases) > 0 =>
              /\ LastAspects = FirstFive(FirstOccurrences(LongerThanTwo(noun_phrases)))
              /\ ~tagger_used
        /\ tagger_used =>
              /\ Len(noun_phrases) = 0
              /\ \A i \in 1..Len(LastAspects) :
                    /\ Len(LastAspects[i]) > 2
                    /\ \E k \in 1..Len(pos_tags) : \E n \in 1..Len(pos_tags[k]) :
                          /\ pos_tags[k][n].word = LastAspects[i]
                          /\ IsNounTag(pos_tags[k][n].pos)

\* C12 witness: the chunker yields a two-character noun phrase first and
\* longer ones after it; the result is not empty and lacks the short one.
C12_Witness ==
    /\ ExtractReturned
    /\ Len(noun_phrases) > 1
    /\ Len(noun_phrases[1]) = 2
    /\ Len(LastAspects) > 0
    /\ ~tagger_used
    /\ \A i \in 1..Len(LastAspects) : LastAspects[i] # noun_phrases[1]

\* C13 as stated: the result is the first 5 elements of the candidate list
\* with the later repeats removed (exact, case-sensitive equality), and
\* has min(5, number of distinct candidates) elements.
C13_DedupThenTruncate ==
    ExtractReturned =>
        LET candidates == IF Len(noun_phrases) > 0 THEN noun_phrases
                          ELSE tagged_nouns(pos_tags)
        IN  /\ LastAspects = FirstFive(FirstOccurrences(candidates))
            /\ Len(LastAspects) =
                  (IF DistinctCount(candidates) < 5 THEN DistinctCount(candidates) ELSE 5)

\* C13 amended: the same of the candidates of more than 2 characters.
C13_DedupLongThenTruncate ==
    ExtractReturned =>
        LET candidates == LongerThanTwo(IF Len(noun_phrases) > 0 THEN noun_phrases
                                        ELSE tagged_nouns(pos_tags))
        IN  /\ LastAspects = FirstFive(FirstOccurrences(candidates))
            /\ Len(LastAspects) =
                  (IF DistinctCount(candidates) < 5 THEN DistinctCount(candidates) ELSE 5)

\* C13 witness: the tagger finds Food, food, service and three more
\* nouns; Food and food are both returned, five terms in all.
C13_Witness ==
    /\ ExtractReturned
    /\ tagger_used
    /\ DistinctCount(tagged_nouns(pos_tags)) > 5
    /\ Len(LastAspects) = 5
    /\ LastAspects[1] = <<"F","o","o","d">>
    /\ LastAspects[2] = <<"f","o","o","d">>

----------------------------------------------------------------------------
(* Properties of the aspect resolver (SpecAspects) *)

\* The list the call of perform_aspect_based_analysis that has just
\* returned gave back.
LastAspectResult == aspect_results[Len(aspect_results)]

AspectsReturned == pc = "returned" /\ Len(aspect_results) > 0

\* The positions of the sentences that contain the aspect, letter case
\* ignored.
Mentions(aspect) == { k \in 1..Len(sentences) : OccursIgnoringCase(aspect, sentences[k]) }

\* The compound the sentiment aggregator gives sentence k when run on it
\* alone.
SentenceCompound(k) ==
    perform_basic_sentiment_analysis(sentence_scores[sentences[k]].vader,
                                     sentence_scores[sentences[k]].blob).compound

RECURSIVE CompoundTotal(_)
\* The sum of the compounds of the sentences at the positions ks.
CompoundTotal(ks) ==
    IF ks = {} THEN 0
    ELSE LET k == CHOOSE x \in ks : TRUE
         IN  SentenceCompound(k) + CompoundTotal(ks \ { k })

\* The result of the sentiment aggregator run on the whole document.
WholeDocument == perform_basic_sentiment_analysis(vader_scores, blob_sentiment)

\* C14: for an aspect some sentence contains (case ignored), the record's
\* score is the mean of the compounds of the matching sentences, each
\* scored by itself; its sentiment is that mean classified with the
\* thresholds +/-0.05; its context is the first matching sentence.
C14_MentionedAspectRecord ==
    AspectsReturned =>
        \A i \in 1..Len(LastAspectResult) :
            LET r  == LastAspectResult[i]
                ks == Mentions(r.aspect)
                n  == Cardinality(ks)
                total == CompoundTotal(ks)
            IN  ks # {} =>
                  /\ r.score.den > 0
                  /\ r.score.num * n = total * r.score.den
                  /\ r.sentiment = (IF total >= Threshold * n THEN "Positive"
                                    ELSE IF total <= -Threshold * n THEN "Negative"
                                    ELSE "Neutral")
                  /\ \E k \in ks : /\ r.context = sentences[k]
                                    /\ \A j \in ks : k <= j

\* C14 witness: an aspect two different sentences mention, the first
\* scored 0 and the second 0.1, so that the mean is exactly 0.05 and the
\* record is Positive with the first of them as context.
C14_Witness ==
    /\ AspectsReturned
    /\ \E i \in 1..Len(LastAspectResult) :
         LET r  == LastAspectResult[i]
             ks == Mentions(r.aspect)
         IN  /\ Cardinality(ks) = 2
             /\ \E k, j \in ks : /\ k < j
                                  /\ sentences[k] # sentences[j]
                                  /\ SentenceCompound(k) = 0
                                  /\ SentenceCompound(j) = 2 * Threshold
                                  /\ r.context = sentences[k]
             /\ r.sentiment = "Positive"

\* C15: for an aspect no sentence contains (case ignored), the record
\* copies the classification and the compound of the sentiment aggregator
\* run on the whole document, and its context is the text 'Inferred from
\* overall text'.
C15_UnmentionedAspectRecord ==
    AspectsReturned =>
        \A i \in 1..Len(LastAspectResult) :
            LET r == LastAspectResult[i]
            IN  Mentions(r.aspect) = {} =>
                  /\ r.sentiment = WholeDocument.classification
                  /\ r.score.num = WholeDocument.compound * r.score.den
                  /\ r.score.den > 0
                  /\ r.context = <<"I","n","f","e","r","r","e","d"," ","f","r","o","m"," ",
                                   "o","v","e","r","a","l","l"," ","t","e","x","t">>

\* C15 witness: an aspect no sentence mentions, in a document scored
\* -0.15, next to an aspect a sentence mentions and that is Positive.
C15_Witness ==
    /\ AspectsReturned
    /\ WholeDocument.classification = "Negative"
    /\ \E i, j \in 1..Len(LastAspectResult) :
         /\ Mentions(LastAspectResult[i].aspect) = {}
         /\ LastAspectResult[i].sentiment = "Negative"
         /\ Mentions(LastAspectResult[j].aspect) # {}
         /\ LastAspectResult[j].sentiment = "Positive"

\* C16: perform_aspect_based_analysis returns one record per term of
\* extract_aspects, in extraction order: the record terms are the
\* extracted list, there are at most 5 records, and the list is empty when
\* no aspect is extracted, as for the empty text.
C16_OneRecordPerAspect ==
    AspectsReturned =>
        LET extracted == aspects_returned[Len(aspects_returned)]
        IN  /\ Len(LastAspectResult) = Len(extracted)
            /\ \A i \in 1..Len(extracted) : LastAspectResult[i].aspect = extracted[i]
            /\ Len(LastAspectResult) <= 5
            /\ Len(extracted) = 0 => Len(LastAspectResult) = 0
            /\ Len(text) = 0 => Len(LastAspectResult) = 0

\* C16 witness: three aspects extracted, the second of which no sentence
\* mentions, and three records returned.
C16_Witness ==
    /\ AspectsReturned
    /\ Len(aspects_returned[Len(aspects_returned)]) = 3
    /\ Len(LastAspectResult) = 3
    /\ Mentions(LastAspectResult[1].aspect) # {}
    /\ Mentions(LastAspectResult[2].aspect) = {}

----------------------------------------------------------------------------
(* Properties of analyze_text (SpecAnalyze) *)

\* The dictionary the call of analyze_text that has just returned gave back.
LastAnalysis == analysis_results[Len(analysis_results)]

\* C17 as stated: two calls of analyze_text with the same text and the
\* same resources give results identical in every field, the timestamp
\* among them.
C17_IdenticalResults ==
    \A i, j \in 1..Len(analysis_results) : analysis_results[i] = analysis_results[j]

\* C17 amended: a call of analyze_text gives a result whose text,
\* sentiment, emotions and aspects are those of every earlier call with
\* the same text and resources; its timestamp is the second the wall
\* clock shows at the call, whatever the earlier timestamps were.
C17_IdenticalButTimestamp ==
    [][ (pc = "ready" /\ pc' = "returned" /\ ~raised') =>
          LET r == analysis_results'[Len(analysis_results')]
          IN  /\ Len(analysis_results') = Len(analysis_results) + 1
              /\ r.timestamp * TicksPerSecond <= now
              /\ now < (r.timestamp + 1) * TicksPerSecond
              /\ \A i \in 1..Len(analysis_results) :
                    /\ analysis_results[i].text = r.text
                    /\ analysis_results[i].sentiment = r.sentiment
                    /\ analysis_results[i].emotions = r.emotions
                    /\ analysis_results[i].aspects = r.aspects ]_vars

\* C17 witness: two calls with the same text, a second apart, that
\* returned the same non-empty aspects and different timestamps.
C17_Witness ==
    /\ pc = "returned"
    /\ Len(analysis_results) = 2
    /\ Len(analysis_results[1].aspects) > 0
    /\ analysis_results[1].aspects = analysis_results[2].aspects
    /\ analysis_results[1].sentiment = analysis_results[2].sentiment
    /\ analysis_results[1].timestamp < analysis_results[2].timestamp

----------------------------------------------------------------------------
(* Properties of the engine's resources (SpecEngine) *)

\* C18: no engine operation changes state that outlives the call: the
\* module-level scorer, the classifier handle and the set of installed
\* resources are after every call what they were before it.
C18_CallsKeepEngineState ==
    [][ (pc = "ready" /\ pc' = "returned") =>
          /\ sia' = sia
          /\ emotion_classifier' = emotion_classifier
          /\ resources' = resources ]_vars

\* C19: a missing resource makes the import fail, so that calls are served
\* only with every resource installed; no call requests a download and no
\* call raises for want of a resource.
C19_FailFastAtStartup ==
    /\ pc = "ready" => resources = Resources
    /\ \A i \in 1..Len(downloads) : downloads[i].during # "call"
    /\ pc = "returned" => ~raised

----------------------------------------------------------------------------
(* Properties of process_csv (SpecCsv) *)

\* The texts of the entries that are not malformed: the cell is there and
\* is not empty once the blanks around it are removed.
WellFormedTexts ==
    SelectSeq([i \in 1..Len(csv_file.cells) |->
                 IF csv_file.cells[i].present THEN strip(csv_file.cells[i].value) ELSE <<>>],
              LAMBDA t : Len(t) > 0)

\* C20: process_csv produces one result for each entry with a non-empty
\* text, and the engine is never called on an entry whose text is missing
\* or empty after stripping.
C20_OneResultPerNonEmptyEntry ==
    /\ Len(sentiments) <= Len(WellFormedTexts)
    /\ \A i \in 1..Len(sentiments) :
          i <= Len(analysis_results) => analysis_results[i].text = WellFormedTexts[i]
    /\ (pc = "done" /\ csv_file.has_text) =>
          /\ Len(csv_results) = Len(WellFormedTexts)
          /\ \A i \in 1..Len(csv_results) : csv_results[i].text = WellFormedTexts[i]

\* C21: the results of process_csv keep the correspondence with the input
\* rows: result i is the analysis of retained row i, also when an earlier
\* row raised and was skipped.
C21_ResultsFollowRetainedRows ==
    (pc = "done" /\ csv_file.has_text) =>
        \A i \in 1..Len(csv_results) :
            csv_results[i].text = clean_text_column(csv_file.cells)[i]

----------------------------------------------------------------------------
(* Properties of the database functions (SpecDatabase) *)

\* The step is a call of the database function op.
DbStep(op) == db_return'.call = db_return.call + 1 /\ db_return'.op = op

\* The rows stored under an id.
RowsWithId(rows, analysis_id) == { i \in 1..Len(rows) : rows[i].id = analysis_id }

\* The rows of a table, as a set.
RowSet(rows) == { rows[i] : i \in 1..Len(rows) }

SavedAs(analysis_id) ==
    LET ks   == { k \in 1..Len(saved_results) : saved_results[k].id = analysis_id }
        last == CHOOSE k \in ks : \A j \in ks : j <= k
    IN  saved_results[last].result

\* The records the reading function called last returned.
RecordsRead ==
    IF db_return.op \in { "get_all", "get_by_id" }
    THEN { db_return.records[i] : i \in 1..Len(db_return.records) }
    ELSE {}

\* C24 as stated: a record returned by get_all_analyses or
\* get_analysis_by_id carries every field of the saved result with its
\* value: text, timestamp, the whole sentiment score with positive,
\* negative, neutral and subjectivity, the emotions and the aspects.
C24_StoredCarriesEveryField ==
    \A rec \in RecordsRead :
        LET original == SavedAs(rec.id)
        IN  /\ rec.text = original.text
            /\ rec.timestamp = original.timestamp
            /\ rec.sentiment_score = original.sentiment.compound
            /\ rec.sentiment_classification = original.sentiment.classification
            /\ rec.confidence = original.sentiment.confidence
            /\ \A f \in { "positive", "negative", "neutral", "subjectivity" } :
                  /\ f \in DOMAIN rec
                  /\ rec[f] = original.sentiment[f]
            /\ rec.emotions = original.emotions
            /\ rec.aspects = original.aspects

\* C24 amended: a record returned by get_all_analyses or
\* get_analysis_by_id has the id and, with their values, the text, the
\* timestamp, the compound (as sentiment_score), the classification, the
\* confidence, the emotions and the aspects of the saved result; it has no
\* other field: positive, negative, neutral and subjectivity are not
\* stored.
C24_StoredCarriesSevenFields ==
    \A rec \in RecordsRead :
        LET original == SavedAs(rec.id)
        IN  /\ DOMAIN rec = { "id", "timestamp", "text", "sentiment_score",
                              "sentiment_classification", "confidence", "emotions",
                              "aspects" }
            /\ rec.text = original.text
            /\ rec.timestamp = original.timestamp
            /\ rec.sentiment_score = original.sentiment.compound
            /\ rec.sentiment_classification = original.sentiment.classification
            /\ rec.confidence = original.sentiment.confidence
            /\ rec.emotions = original.emotions
            /\ rec.aspects = original.aspects

\* C24 witness: get_all_analyses has returned two records, of different
\* texts, one of them with aspects and a compound that is not its
\* confidence.
C24_Witness ==
    /\ db_return.op = "get_all"
    /\ Len(db_return.records) = 2
    /\ db_return.records[1].text # db_return.records[2].text
    /\ \E rec \in RecordsRead :
         /\ Len(rec.aspects) > 0
         /\ rec.sentiment_score # rec.confidence
         /\ rec.timestamp > 0

\* C28: when save_analysis fails (it prints its error) it returns None,
\* raises nothing and leaves the stored records as they were; when it does
\* not fail it returns the id of the one record it added.
C28_FailedSaveLeavesStore ==
    [][ DbStep("save") =>
          IF db_return'.printed # ""
          THEN /\ db_return'.none
               /\ ~raised'
               /\ db_rows' = db_rows
          ELSE /\ ~db_return'.none
               /\ Len(db_rows') = Len(db_rows) + 1
               /\ RowsWithId(db_rows', db_return'.number) = { Len(db_rows') } ]_vars

\* C28 witness: save_analysis has failed with a record stored.
C28_Witness ==
    /\ db_return.op = "save"
    /\ db_return.none
    /\ db_return.printed = "Error saving to database"
    /\ Len(db_rows) = 1
    /\ ~raised

----------------------------------------------------------------------------
(* Substring matching and repeated keywords (SpecEmotion, SpecRepeat) *)

\* The place where the word that starts at place i of a text ends.
WordEnd(t, i) ==
    CHOOSE j \in i..Len(t) :
        /\ \A k \in i..j : t[k] # " "
        /\ j = Len(t) \/ t[j + 1] = " "

\* The words of a text: its maximal pieces without a space.
WordsOf(t) ==
    { SubSeq(t, i, WordEnd(t, i)) :
        i \in { i \in 1..Len(t) : t[i] # " " /\ (i = 1 \/ t[i - 1] = " ") } }

\* The words of emotion e's list that occur inside one of the given words,
\* letter case ignored.
ListWordsInside(e, words) ==
    { k \in 1..Len(emotion_words[e]) :
        \E w \in words : OccursIgnoringCase(emotion_words[e][k], w) }

\* Those of the given words that have a keyword of some list inside.
EmotionBearingWords(words) ==
    { w \in words :
        \E e \in KeywordEmotions : \E k \in 1..Len(emotion_words[e]) :
            OccursIgnoringCase(emotion_words[e][k], w) }

\* C25: matching is by substring: a keyword that occurs inside a longer
\* word of the text counts like one that is a word of the text, and a text
\* whose only emotion-bearing word is 'unhappy' gets joy = 0.2 (by
\* 'happy') and sadness = 0.2, the three other emotions 0.
C25_SubstringMatching ==
    EmotionReturned =>
        LET words == WordsOf(text)
        IN
        /\ \A e \in KeywordEmotions :
              5 * LastEmotions[e] = One * Min(5, Cardinality(ListWordsInside(e, words)))
        /\ EmotionBearingWords(words) = { <<"u","n","h","a","p","p","y">> } =>
              /\ 5 * LastEmotions["joy"] = One
              /\ 5 * LastEmotions["sadness"] = One
              /\ LastEmotions["anger"] = 0
              /\ LastEmotions["fear"] = 0
              /\ LastEmotions["surprise"] = 0

\* C25 witness: the lexicon classifier has returned for a text with the
\* words 'unhappy' and 'fine' only, with joy 0.2 and sadness 0.2.
C25_Witness ==
    /\ EmotionReturned
    /\ WordsOf(text) = { <<"u","n","h","a","p","p","y">>, <<"f","i","n","e">> }
    /\ <<"h","a","p","p","y">> \notin WordsOf(text)
    /\ 5 * LastEmotions["joy"] = One
    /\ 5 * LastEmotions["sadness"] = One

----------------------------------------------------------------------------
(* Sentiment and score of one record (SpecExtremes) *)

\* C30: in every record perform_aspect_based_analysis returns, for an
\* aspect some sentence mentions as for one that none mentions, sentiment
\* is the classification of that record's own score by the thresholds
\* +0.05 and -0.05, and the score lies in [-1, 1] (every compound of the
\* aggregator does).
C30_SentimentOfOwnScore ==
    AspectsReturned =>
        \A i \in 1..Len(LastAspectResult) :
            LET r == LastAspectResult[i]
            IN  /\ r.score.den > 0
                /\ r.sentiment = (IF 20 * r.score.num >= One * r.score.den THEN "Positive"
                                  ELSE IF 20 * r.score.num <= -(One * r.score.den)
                                       THEN "Negative"
                                  ELSE "Neutral")
                /\ r.score.num <= One * r.score.den
                /\ r.score.num >= -(One * r.score.den)

\* C30 witness: one record of an aspect that a sentence scored 1.0 and a
\* sentence scored -1.0 mention, with score 0 and Neutral, and one of an
\* aspect no sentence mentions, in a text scored -1.0, Negative.
C30_Witness ==
    /\ AspectsReturned
    /\ \E i, j \in 1..Len(LastAspectResult) :
         LET r == LastAspectResult[i]
             u == LastAspectResult[j]
         IN  /\ \E k, l \in Mentions(r.aspect) :
                   SentenceCompound(k) = One /\ SentenceCompound(l) = -One
             /\ Cardinality(Mentions(r.aspect)) = 2
             /\ r.score.num = 0
             /\ r.sentiment = "Neutral"
             /\ Mentions(u.aspect) = {}
             /\ u.score.num = -(One * u.score.den)
             /\ u.sentiment = "Negative"

----------------------------------------------------------------------------
(* The session history after analyze_text (SpecAnalyze) *)

\* C27: after analyze_text(text) has returned, the session history has an
\* entry for the analysed text, whether the database accepted the save or
\* not: a result that could not be saved is in the history all the same.
C27_HistoryHasAnalysedText ==
    (pc = "returned" /\ ~raised /\ Len(analysis_results) > 0) =>
        \E i \in 1..Len(history) :
            /\ history[i].text = text
            /\ history[i].timestamp = LastAnalysis.timestamp

----------------------------------------------------------------------------
(* Concurrent analyses (SpecConcurrent) *)

\* The resources installed before either call started: a resource is
\* added only by a download of one of the calls.
InstalledAtStart ==
    IF \E t \in Threads : threads[t].wrote # {} THEN resources \ { Tagger } ELSE resources

\* C26: concurrent calls of the engine on different texts are independent:
\* however the two calls are interleaved, each returns what it returns
\* when run alone, no call finds a resource the other call installed, and
\* no call installs over what the other installed.
C26_ConcurrentCallsIndependent ==
    \A t \in Threads :
        /\ threads[t].at = "returned" =>
              [raised |-> threads[t].raised, aspects |-> threads[t].aspects]
                  = Alone(t, InstalledAtStart)
        /\ \A u \in Threads \ { t } :
              threads[u].wrote # {} => (~threads[t].found /\ threads[t].wrote = {})

=============================================================================
